---- MODULE Spec2Model ----
(***************************************************************************)
(* Model of the plugin packages of llm-module-pattern: the plugin          *)
(* manifests, the Zod schema declarations of every capability, the tool    *)
(* executors, and the host that loads plugins, registers agents and        *)
(* invokes tools.                                                          *)
(*                                                                         *)
(* JavaScript values are tagged records: t is the value's runtime type and *)
(* v its content.  Numbers are fixed-point, in units of 1/Scale, so that   *)
(* 0.7 and 4.8 are exact.                                                  *)
(***************************************************************************)
EXTENDS Integers, Sequences, FiniteSets, TLC

VARIABLES
    manifests,   \* plugin id -> the manifest object created at module load
    loaded,      \* plugin packages the host application has imported
    started,     \* whether `new Mastra({ agents })` has run
    agents,      \* agent names registered with the Mastra instance
    now,         \* the clock, in seconds since the epoch
    call,        \* the tool invocation in progress
    events,      \* what the invocation has written to context.writer
    prev,        \* the invocation completed before the current one
    vcase,       \* the schema validation most recently performed
    registry,    \* the PluginRegistry: its plugins map, hook calls, last operation
    run,         \* the run of orderProcessingWorkflow in progress
    chat,        \* the chat of a client-side tool call: message part, agent, UI
    request,     \* the agent request passing through the input processors
    lifecycle,   \* a BasePlugin: its state, hooks and the initialize() under way
    demo         \* the AskUserForStuffDemo component and the requests it has sent

vars == <<manifests, loaded, started, agents, now, call, events, prev, vcase, registry, run, chat, request, lifecycle, demo>>

-----------------------------------------------------------------------------
(* Bounds of the model *)

\* the clock runs from 0 to MaxClock
MaxClock == 1

\* fixed-point unit of a JavaScript number: 1 is Scale, 0.7 is 70
Scale == 100

-----------------------------------------------------------------------------
(* JavaScript values *)

Undef == [t |-> "undefined"]
NaN == [t |-> "nan"]
S(x) == [t |-> "string", v |-> x]
Num(i) == [t |-> "number", v |-> i * Scale]
Frac(h) == [t |-> "number", v |-> h]
B(b) == [t |-> "boolean", v |-> b]
A(seq) == [t |-> "array", v |-> seq]
O(rec) == [t |-> "object", v |-> rec]

\* obj.key, undefined when the key is absent
Get(obj, key) ==
    IF obj.t = "object" /\ key \in DOMAIN obj.v THEN obj.v[key] ELSE Undef

\* { ...obj, key: value }
With(obj, key, value) ==
    O([f \in DOMAIN obj.v \cup {key} |-> IF f = key THEN value ELSE obj.v[f]])

\* obj with key deleted
Without(obj, key) ==
    O([f \in DOMAIN obj.v \ {key} |-> obj.v[f]])

\* a || b
OrElse(a, b) ==
    IF \/ a.t \in {"undefined", "nan"}
       \/ (a.t = "string" /\ a.v = "")
       \/ (a.t = "number" /\ a.v = 0)
       \/ (a.t = "boolean" /\ ~a.v)
    THEN b ELSE a

-----------------------------------------------------------------------------
(* Zod schema constructors: z.string(), z.number(), ... *)

ZString == [k |-> "string"]
ZEmail == [k |-> "email"]
ZNumber == [k |-> "number", gt0 |-> FALSE, ranged |-> FALSE, min |-> 0, max |-> 0]
ZPositive == [k |-> "number", gt0 |-> TRUE, ranged |-> FALSE, min |-> 0, max |-> 0]
ZRange(lo, hi) == [k |-> "number", gt0 |-> FALSE, ranged |-> TRUE, min |-> lo, max |-> hi]
ZBoolean == [k |-> "boolean"]
ZUnknown == [k |-> "unknown"]
ZEnum(vals) == [k |-> "enum", vals |-> vals]
ZLiteral(x) == [k |-> "literal", value |-> x]
ZArray(of) == [k |-> "array", of |-> of, min |-> 0]
ZArrayMin(of, n) == [k |-> "array", of |-> of, min |-> n]
ZTuple(items) == [k |-> "tuple", items |-> items]
ZObject(shape) == [k |-> "object", shape |-> shape]
ZRecord(of) == [k |-> "record", of |-> of]
ZOptional(inner) == [k |-> "optional", inner |-> inner]
ZDefault(inner, def) == [k |-> "default", inner |-> inner, def |-> def]

\* the runtime type a schema accepts
Accepts(s) ==
    CASE s.k \in {"string", "email", "enum"} -> "string"
      [] s.k = "number" -> "number"
      [] s.k = "boolean" -> "boolean"
      [] s.k \in {"array", "tuple"} -> "array"
      [] s.k \in {"object", "record"} -> "object"
      [] s.k = "literal" -> s.value.t
      [] OTHER -> "any"

\* a key of an object schema that a candidate must supply
IsRequired(s) == s.k \notin {"optional", "default", "unknown"}

Issue(path, code) == [path |-> path, code |-> code]
Good(x) == [ok |-> TRUE, data |-> x, issues |-> {}]
Bad(issues) == [ok |-> FALSE, data |-> Undef, issues |-> issues]
TypeIssue(x, path) ==
    Bad({Issue(path, IF x.t = "undefined" THEN "required" ELSE "invalid_type")})

\* s.includes(c) for a one-character c
HasChar(s, c) == \E i \in 1..Len(s) : SubSeq(s, i, i) = c

\* z.string().email(): local part, "@", domain with a dot
IsEmail(s) ==
    \E i \in 2..Len(s) - 1 :
        /\ SubSeq(s, i, i) = "@"
        /\ ~HasChar(SubSeq(s, 1, i - 1), "@")
        /\ ~HasChar(SubSeq(s, i + 1, Len(s)), "@")
        /\ \E j \in i + 2..Len(s) - 1 : SubSeq(s, j, j) = "."

RECURSIVE ZParse(_, _, _)
\* schema.safeParse(x): the validated data, or the issues with their paths
ZParse(s, x, path) ==
    CASE s.k = "unknown" -> Good(x)
      [] s.k = "optional" ->
            IF x.t = "undefined" THEN Good(Undef) ELSE ZParse(s.inner, x, path)
      [] s.k = "default" ->
            IF x.t = "undefined" THEN ZParse(s.inner, s.def, path)
            ELSE ZParse(s.inner, x, path)
      [] s.k = "string" ->
            IF x.t = "string" THEN Good(x) ELSE TypeIssue(x, path)
      [] s.k = "email" ->
            IF x.t # "string" THEN TypeIssue(x, path)
            ELSE IF IsEmail(x.v) THEN Good(x)
            ELSE Bad({Issue(path, "invalid_string")})
      [] s.k = "boolean" ->
            IF x.t = "boolean" THEN Good(x) ELSE TypeIssue(x, path)
      [] s.k = "number" ->
            IF x.t # "number" THEN TypeIssue(x, path)
            ELSE IF s.gt0 /\ x.v <= 0 THEN Bad({Issue(path, "too_small")})
            ELSE IF s.ranged /\ x.v < s.min THEN Bad({Issue(path, "too_small")})
            ELSE IF s.ranged /\ x.v > s.max THEN Bad({Issue(path, "too_big")})
            ELSE Good(x)
      [] s.k = "enum" ->
            IF x.t # "string" THEN TypeIssue(x, path)
            ELSE IF x.v \in s.vals THEN Good(x)
            ELSE Bad({Issue(path, "invalid_enum_value")})
      [] s.k = "literal" ->
            IF x.t = s.value.t /\ x = s.value THEN Good(x)
            ELSE Bad({Issue(path, "invalid_literal")})
      [] s.k = "record" ->
            IF x.t = "object" THEN Good(x) ELSE TypeIssue(x, path)
      [] s.k = "array" ->
            IF x.t # "array" THEN TypeIssue(x, path)
            ELSE LET r == [i \in 1..Len(x.v) |->
                            ZParse(s.of, x.v[i], Append(path, ToString(i - 1)))]
                     issues == UNION {r[i].issues : i \in 1..Len(x.v)}
                                 \cup (IF Len(x.v) < s.min
                                       THEN {Issue(path, "too_small")} ELSE {})
                 IN IF issues = {} THEN Good(A([i \in 1..Len(x.v) |-> r[i].data]))
                    ELSE Bad(issues)
      [] s.k = "tuple" ->
            IF x.t # "array" THEN TypeIssue(x, path)
            ELSE IF Len(x.v) < Len(s.items) THEN Bad({Issue(path, "too_small")})
            ELSE IF Len(x.v) > Len(s.items) THEN Bad({Issue(path, "too_big")})
            ELSE LET r == [i \in 1..Len(x.v) |->
                            ZParse(s.items[i], x.v[i], Append(path, ToString(i - 1)))]
                     issues == UNION {r[i].issues : i \in 1..Len(x.v)}
                 IN IF issues = {} THEN Good(A([i \in 1..Len(x.v) |-> r[i].data]))
                    ELSE Bad(issues)
      [] s.k = "object" ->
            IF x.t # "object" THEN TypeIssue(x, path)
            ELSE LET r == [f \in DOMAIN s.shape |->
                            ZParse(s.shape[f], Get(x, f), Append(path, f))]
                     issues == UNION {r[f].issues : f \in DOMAIN s.shape}
                     \* unknown keys are stripped; a key is kept when the input
                     \* has it or its parsed value is defined
                     keys == {f \in DOMAIN s.shape :
                                f \in DOMAIN x.v \/ r[f].data.t # "undefined"}
                 IN IF issues = {} THEN Good(O([f \in keys |-> r[f].data]))
                    ELSE Bad(issues)

\* schema.safeParse(x)
SafeParse(s, x) == ZParse(s, x, <<>>)

-----------------------------------------------------------------------------
(* Schemas of plugins/ask-user-for-stuff/config.ts *)

\* a confirmation input that declares its labels optional, without defaults:
\* the declared defaults are what validation has to supply
confirmationInputSchemaNoDefaults ==
    ZObject([title |-> ZString,
             message |-> ZString,
             confirmLabel |-> ZOptional(ZString),
             cancelLabel |-> ZOptional(ZString),
             variant |-> ZOptional(ZEnum({"default", "warning", "danger"}))])

confirmationInputSchema ==
    ZObject([title |-> ZString,
             message |-> ZString,
             confirmLabel |-> ZDefault(ZString, S("Confirm")),
             cancelLabel |-> ZDefault(ZString, S("Cancel")),
             variant |-> ZDefault(ZEnum({"default", "warning", "danger"}), S("default"))])

confirmationOutputSchema ==
    ZObject([confirmed |-> ZBoolean, timestamp |-> ZString])

multipleChoiceInputSchema ==
    ZObject([question |-> ZString,
             options |-> ZArrayMin(ZObject([id |-> ZString,
                                            label |-> ZString,
                                            description |-> ZOptional(ZString),
                                            icon |-> ZOptional(ZString)]), 2),
             allowMultiple |-> ZDefault(ZBoolean, B(FALSE))])

multipleChoiceOutputSchema ==
    ZObject([selected |-> ZArray(ZString), timestamp |-> ZString])

\* a text input whose default for `required` depends on what was validated
\* before: a schema with memory
textInputSchemaRemembering ==
    ZObject([prompt |-> ZString,
             placeholder |-> ZOptional(ZString),
             multiline |-> ZDefault(ZBoolean, B(FALSE)),
             required |-> ZDefault(ZBoolean, B(vcase.kind = "none"))])

textInputSchema ==
    ZObject([prompt |-> ZString,
             placeholder |-> ZOptional(ZString),
             multiline |-> ZDefault(ZBoolean, B(FALSE)),
             required |-> ZDefault(ZBoolean, B(TRUE))])

textOutputSchema ==
    ZObject([value |-> ZString, timestamp |-> ZString])

(* Schemas of plugins/trip-planner/config.ts *)

weatherInputSchema == ZObject([location |-> ZString])

\* a weather output whose forecast may be left out: forecast has to be
\* declared required for its absence to be an error
weatherOutputSchemaLax ==
    ZObject([location |-> ZString,
             temperature |-> ZNumber,
             feelsLike |-> ZNumber,
             description |-> ZString,
             humidity |-> ZNumber,
             windSpeed |-> ZNumber,
             uvIndex |-> ZNumber,
             forecast |-> ZOptional(ZArray(ZObject([date |-> ZString,
                                                    high |-> ZNumber,
                                                    low |-> ZNumber,
                                                    description |-> ZString])))])

weatherOutputSchema ==
    ZObject([location |-> ZString,
             temperature |-> ZNumber,
             feelsLike |-> ZNumber,
             description |-> ZString,
             humidity |-> ZNumber,
             windSpeed |-> ZNumber,
             uvIndex |-> ZNumber,
             forecast |-> ZArray(ZObject([date |-> ZString,
                                          high |-> ZNumber,
                                          low |-> ZNumber,
                                          description |-> ZString]))])

placesInputSchema ==
    ZObject([location |-> ZString,
             category |-> ZEnum({"attractions", "restaurants", "hotels", "activities"}),
             limit |-> ZDefault(ZNumber, Num(5))])

placesOutputSchema ==
    ZObject([location |-> ZString,
             category |-> ZString,
             places |-> ZArray(ZObject([name |-> ZString,
                                        description |-> ZString,
                                        rating |-> ZOptional(ZNumber),
                                        priceLevel |-> ZOptional(ZString),
                                        tags |-> ZArray(ZString)]))])

geojsonInputSchema ==
    ZObject([location |-> ZString,
             points |-> ZArray(ZObject(
                 [name |-> ZString,
                  description |-> ZOptional(ZString),
                  lat |-> ZNumber,
                  lng |-> ZNumber,
                  type |-> ZDefault(ZEnum({"attraction", "restaurant", "hotel",
                                           "activity", "other"}), S("other"))]))])

geojsonOutputSchema ==
    ZObject([location |-> ZString,
             geojson |-> ZObject(
                 [type |-> ZLiteral(S("FeatureCollection")),
                  features |-> ZArray(ZObject(
                      [type |-> ZLiteral(S("Feature")),
                       properties |-> ZObject([name |-> ZString,
                                               description |-> ZOptional(ZString),
                                               markerType |-> ZString]),
                       geometry |-> ZObject(
                           [type |-> ZLiteral(S("Point")),
                            coordinates |-> ZTuple(<<ZNumber, ZNumber>>)])]))]),
             viewerUrl |-> ZString,
             pointCount |-> ZNumber])

(* Schemas of the research-bot config.ts *)

researchInputSchema ==
    ZObject([topic |-> ZString,
             depth |-> ZDefault(ZEnum({"quick", "standard", "deep"}), S("standard"))])

researchOutputSchema ==
    ZObject([topic |-> ZString,
             summary |-> ZString,
             keyFindings |-> ZArray(ZObject(
                 [point |-> ZString,
                  importance |-> ZEnum({"high", "medium", "low"})])),
             relatedTopics |-> ZArray(ZString),
             confidence |-> ZRange(0, Scale)])

expertAnalysisSchema ==
    ZObject([analysis |-> ZString,
             keyInsights |-> ZArray(ZString),
             confidence |-> ZRange(0, Scale)])

(* Schemas of the generative-ui config.ts (the weather plugin) *)

genuiWeatherInputSchema == ZObject([location |-> ZString])

genuiWeatherOutputSchema ==
    ZObject([location |-> ZString,
             temperature |-> ZNumber,
             description |-> ZString,
             humidity |-> ZNumber,
             windSpeed |-> ZNumber,
             icon |-> ZOptional(ZString)])

(* Schemas of the branching-workflow config.ts *)

orderInputSchema ==
    ZObject([orderId |-> ZString,
             orderType |-> ZEnum({"standard", "express", "priority"}),
             amount |-> ZPositive,
             items |-> ZArray(ZObject([sku |-> ZString,
                                       quantity |-> ZPositive,
                                       name |-> ZString])),
             customerEmail |-> ZEmail])

orderOutputSchema ==
    ZObject([orderId |-> ZString,
             status |-> ZEnum({"processed", "failed", "pending_review"}),
             shippingEstimate |-> ZString,
             trackingNumber |-> ZOptional(ZString),
             processingTime |-> ZNumber,
             notes |-> ZArray(ZString)])

processingResultSchema ==
    ZObject([success |-> ZBoolean,
             message |-> ZString,
             data |-> ZOptional(ZRecord(ZUnknown))])

(* Schemas of the nested-agent-streams config.ts *)

nestedResearchInputSchema ==
    ZObject([topic |-> ZString,
             depth |-> ZDefault(ZEnum({"brief", "detailed", "comprehensive"}),
                                S("detailed"))])

nestedResearchOutputSchema ==
    ZObject([topic |-> ZString,
             summary |-> ZString,
             keyPoints |-> ZArray(ZString),
             sources |-> ZOptional(ZArray(ZString))])

analysisInputSchema == ZObject([content |-> ZString])

analysisOutputSchema ==
    ZObject([analysis |-> ZString,
             sentiment |-> ZEnum({"positive", "neutral", "negative"}),
             confidence |-> ZRange(0, Scale)])

-----------------------------------------------------------------------------
(* Schema validation on its own: the declared schemas, applied to candidate *)
(* objects                                                                  *)

\* every schema the source declares, by the name it is exported under
Schemas ==
    [confirmationInputSchema |-> confirmationInputSchema,
     confirmationOutputSchema |-> confirmationOutputSchema,
     multipleChoiceInputSchema |-> multipleChoiceInputSchema,
     multipleChoiceOutputSchema |-> multipleChoiceOutputSchema,
     textInputSchema |-> textInputSchema,
     textOutputSchema |-> textOutputSchema,
     weatherInputSchema |-> weatherInputSchema,
     weatherOutputSchema |-> weatherOutputSchema,
     placesInputSchema |-> placesInputSchema,
     placesOutputSchema |-> placesOutputSchema,
     geojsonInputSchema |-> geojsonInputSchema,
     geojsonOutputSchema |-> geojsonOutputSchema,
     researchInputSchema |-> researchInputSchema,
     researchOutputSchema |-> researchOutputSchema,
     expertAnalysisSchema |-> expertAnalysisSchema,
     genuiWeatherInputSchema |-> genuiWeatherInputSchema,
     genuiWeatherOutputSchema |-> genuiWeatherOutputSchema,
     orderInputSchema |-> orderInputSchema,
     orderOutputSchema |-> orderOutputSchema,
     processingResultSchema |-> processingResultSchema,
     nestedResearchInputSchema |-> nestedResearchInputSchema,
     nestedResearchOutputSchema |-> nestedResearchOutputSchema,
     analysisInputSchema |-> analysisInputSchema,
     analysisOutputSchema |-> analysisOutputSchema]

\* the input schema of each declared capability
InputSchemaNames ==
    {"confirmationInputSchema", "multipleChoiceInputSchema", "textInputSchema",
     "weatherInputSchema", "placesInputSchema", "geojsonInputSchema",
     "researchInputSchema", "genuiWeatherInputSchema", "orderInputSchema",
     "nestedResearchInputSchema", "analysisInputSchema"}

Option(id, label) == O([id |-> S(id), label |-> S(label)])

\* per input schema, a candidate with the required fields and no optional one
RequiredOnly ==
    [confirmationInputSchema |->
        O([title |-> S("Delete?"), message |-> S("This cannot be undone")]),
     multipleChoiceInputSchema |->
        O([question |-> S("Theme?"),
           options |-> A(<<Option("light", "Light"), Option("dark", "Dark")>>)]),
     textInputSchema |-> O([prompt |-> S("Your name")]),
     weatherInputSchema |-> O([location |-> S("Paris")]),
     placesInputSchema |-> O([location |-> S("Paris"), category |-> S("hotels")]),
     geojsonInputSchema |->
        O([location |-> S("Paris"),
           points |-> A(<<O([name |-> S("Louvre"), lat |-> Frac(4886),
                             lng |-> Frac(234)])>>)]),
     researchInputSchema |-> O([topic |-> S("quantum computing")]),
     genuiWeatherInputSchema |-> O([location |-> S("Paris")]),
     orderInputSchema |->
        O([orderId |-> S("ORD-17"), orderType |-> S("priority"),
           amount |-> Num(1500),
           items |-> A(<<O([sku |-> S("SKU-1"), quantity |-> Num(2),
                            name |-> S("Widget")])>>),
           customerEmail |-> S("ann@example.com")]),
     nestedResearchInputSchema |-> O([topic |-> S("quantum computing")]),
     analysisInputSchema |-> O([content |-> S("some content")])]

\* the confirmation scenario: confirmLabel and cancelLabel omitted
ConfirmationScenario ==
    O([title |-> S("Delete?"), message |-> S("This cannot be undone"),
       variant |-> S("danger")])

\* per output schema, an object of the declared shape
ValidOutput ==
    [confirmationOutputSchema |->
        O([confirmed |-> B(TRUE), timestamp |-> S("1970-01-01T00:00:01.000Z")]),
     multipleChoiceOutputSchema |->
        O([selected |-> A(<<S("dark")>>), timestamp |-> S("1970-01-01T00:00:01.000Z")]),
     textOutputSchema |->
        O([value |-> S("Ann"), timestamp |-> S("1970-01-01T00:00:01.000Z")]),
     weatherOutputSchema |->
        O([location |-> S("Paris"), temperature |-> Num(21), feelsLike |-> Num(20),
           description |-> S("Sunny"), humidity |-> Num(40), windSpeed |-> Num(7),
           uvIndex |-> Num(5),
           forecast |-> A(<<O([date |-> S("2026-01-31"), high |-> Num(22),
                               low |-> Num(12), description |-> S("Sunny")])>>)]),
     placesOutputSchema |->
        O([location |-> S("Paris"), category |-> S("hotels"),
           places |-> A(<<O([name |-> S("Boutique Inn"),
                             description |-> S("Charming rooms with local character"),
                             tags |-> A(<<S("boutique")>>)])>>)]),
     geojsonOutputSchema |->
        O([location |-> S("Paris"),
           geojson |-> O([type |-> S("FeatureCollection"),
                          features |-> A(<<O(
                              [type |-> S("Feature"),
                               properties |-> O([name |-> S("Louvre"),
                                                 markerType |-> S("other")]),
                               geometry |-> O([type |-> S("Point"),
                                               coordinates |->
                                                   A(<<Frac(234), Frac(4886)>>)])])>>)]),
           viewerUrl |-> S("https://geojson.io/#data=data:application/json,"),
           pointCount |-> Num(1)]),
     researchOutputSchema |->
        O([topic |-> S("quantum computing"), summary |-> S("Overview"),
           keyFindings |-> A(<<O([point |-> S("Qubits are fragile"),
                                  importance |-> S("high")])>>),
           relatedTopics |-> A(<<S("cryptography")>>),
           confidence |-> Frac(85)]),
     expertAnalysisSchema |->
        O([analysis |-> S("Overview"), keyInsights |-> A(<<S("insight")>>),
           confidence |-> Frac(85)]),
     genuiWeatherOutputSchema |->
        O([location |-> S("Paris"), temperature |-> Num(21),
           description |-> S("Sunny"), humidity |-> Num(40), windSpeed |-> Num(7)]),
     orderOutputSchema |->
        O([orderId |-> S("17"), status |-> S("processed"),
           shippingEstimate |-> S("5-7 business days"),
           processingTime |-> Num(500), notes |-> A(<<S("done")>>)]),
     processingResultSchema |->
        O([success |-> B(TRUE), message |-> S("Standard order processed successfully")]),
     nestedResearchOutputSchema |->
        O([topic |-> S("quantum computing"), summary |-> S("Overview"),
           keyPoints |-> A(<<S("Qubits are fragile")>>)]),
     analysisOutputSchema |->
        O([analysis |-> S("Overview"), sentiment |-> S("neutral"),
           confidence |-> Frac(85)])]

\* a valid object of the schema's shape
ValidSample(name) ==
    IF name \in InputSchemaNames THEN RequiredOnly[name] ELSE ValidOutput[name]

\* one value of each primitive type
Primitives == {S("oops"), Num(123), B(TRUE)}

\* a schema without its .optional() / .default() wrapper
Unwrap(s) == IF s.k \in {"optional", "default"} THEN s.inner ELSE s

RECURSIVE Malformed(_, _, _)
\* the objects obtained from the valid object x of schema s by omitting one
\* required field or giving it a value of another primitive type, each with
\* the path of the field
Malformed(s, x, path) ==
    CASE s.k = "object" /\ x.t = "object" ->
            UNION {
                (IF IsRequired(s.shape[f])
                 THEN {[cand |-> Without(x, f), path |-> Append(path, f), how |-> "omitted"]}
                      \cup {[cand |-> With(x, f, w), path |-> Append(path, f),
                             how |-> "wrong type"] :
                            w \in {p \in Primitives : p.t # Accepts(s.shape[f])}}
                 ELSE {})
                \cup
                (IF f \in DOMAIN x.v
                 THEN {[cand |-> With(x, f, m.cand), path |-> m.path, how |-> m.how] :
                        m \in Malformed(Unwrap(s.shape[f]), x.v[f], Append(path, f))}
                 ELSE {}) : f \in DOMAIN s.shape}
      [] s.k = "array" /\ x.t = "array" /\ Len(x.v) > 0 ->
            {[cand |-> A([x.v EXCEPT ![1] = m.cand]), path |-> m.path, how |-> m.how] :
                m \in Malformed(s.of, x.v[1], Append(path, "0"))}
      [] OTHER -> {}

\* the weather scenario: an output object without its forecast
WeatherWithoutForecast ==
    [cand |-> Without(ValidOutput.weatherOutputSchema, "forecast"),
     path |-> <<"forecast">>, how |-> "omitted"]

NoCase == [kind |-> "none"]

\* schema.safeParse(candidate) on a well-formed candidate
ValidateSample(name, x) ==
    /\ vcase' = [kind |-> "valid", schema |-> name, cand |-> x,
                 res |-> SafeParse(Schemas[name], x)]
    /\ UNCHANGED <<manifests, loaded, started, agents, now, call, events, prev, registry, run, chat, request, lifecycle, demo>>

\* schema.safeParse(candidate) on a candidate with one field omitted or mistyped
ValidateMalformed(name, m) ==
    /\ vcase' = [kind |-> "malformed", schema |-> name, cand |-> m.cand,
                 path |-> m.path, how |-> m.how,
                 res |-> SafeParse(Schemas[name], m.cand)]
    /\ UNCHANGED <<manifests, loaded, started, agents, now, call, events, prev, registry, run, chat, request, lifecycle, demo>>

\* schema.safeParse(candidate) once more, on the object validated last
ValidateAgain ==
    /\ vcase.kind # "none"
    /\ "again" \notin DOMAIN vcase
    /\ vcase' = [f \in DOMAIN vcase \cup {"again", "after"} |->
                    CASE f = "again" -> SafeParse(Schemas[vcase.schema], vcase.cand)
                      [] f = "after" -> vcase.cand
                      [] OTHER -> vcase[f]]
    /\ UNCHANGED <<manifests, loaded, started, agents, now, call, events, prev, registry, run, chat, request, lifecycle, demo>>

-----------------------------------------------------------------------------
(* JavaScript string and array helpers *)

IsDigit(c) == \E i \in 1..10 : SubSeq("0123456789", i, i) = c
IsSpace(c) == c \in {" ", "\t", "\n", "\r"}

RECURSIVE DigitRun(_, _)
\* the end of the run of digits of s that starts at position i
DigitRun(s, i) ==
    IF i <= Len(s) /\ IsDigit(SubSeq(s, i, i)) THEN DigitRun(s, i + 1) ELSE i

RECURSIVE DecimalValue(_)
DecimalValue(s) ==
    IF s = "" THEN 0
    ELSE 10 * DecimalValue(SubSeq(s, 1, Len(s) - 1))
         + (CHOOSE i \in 1..10 :
                SubSeq("0123456789", i, i) = SubSeq(s, Len(s), Len(s))) - 1

RECURSIVE SkipSpace(_, _)
SkipSpace(s, i) ==
    IF i <= Len(s) /\ IsSpace(SubSeq(s, i, i)) THEN SkipSpace(s, i + 1) ELSE i

\* parseInt(x, 10)
ParseInt(x) ==
    IF x.t # "string" THEN NaN
    ELSE LET s == x.v
             b == SkipSpace(s, 1)
             neg == b <= Len(s) /\ SubSeq(s, b, b) = "-"
             d == IF b <= Len(s) /\ SubSeq(s, b, b) \in {"-", "+"} THEN b + 1 ELSE b
             e == DigitRun(s, d)
         IN IF e = d THEN NaN
            ELSE Num((IF neg THEN -1 ELSE 1) * DecimalValue(SubSeq(s, d, e - 1)))

\* arr[i], undefined out of range (i counts from 0)
Idx(arr, i) ==
    IF arr.t = "array" /\ i + 1 <= Len(arr.v) THEN arr.v[i + 1] ELSE Undef

\* arr.slice(0, n)
Slice(seq, n) == SubSeq(seq, 1, IF n < Len(seq) THEN n ELSE Len(seq))

\* new Date().toISOString() when the clock reads t seconds
ToISOString(t) ==
    "1970-01-01T00:00:" \o (IF t < 10 THEN "0" ELSE "") \o ToString(t) \o ".000Z"

\* JSON.stringify(value), URI-encoded
EncodeJson(value) == ToString(value)

-----------------------------------------------------------------------------
(* Plugin manifests *)

tripPlannerConfig ==
    [id |-> "trip-planner", name |-> "Trip Planner Plugin", version |-> "1.0.0"]

\* a trip planner manifest that names its agent like one of its tools: the
\* identifiers of the real one have to differ
tripPlannerPluginReusedId ==
    [id |-> tripPlannerConfig.id,
     name |-> tripPlannerConfig.name,
     version |-> tripPlannerConfig.version,
     features |-> [tools |-> TRUE, agents |-> TRUE, ui |-> TRUE,
                   processors |-> FALSE, storage |-> FALSE],
     toolIds |-> <<"getWeather", "findPlaces", "generateMap">>,
     agentIds |-> <<"getWeather">>,
     uiComponents |-> ("tool-getWeather" :> "WeatherCard")
                      @@ ("tool-findPlaces" :> "PlacesCard")
                      @@ ("tool-generateMap" :> "GeoJsonCard")]

tripPlannerPlugin ==
    [id |-> tripPlannerConfig.id,
     name |-> tripPlannerConfig.name,
     version |-> tripPlannerConfig.version,
     features |-> [tools |-> TRUE, agents |-> TRUE, ui |-> TRUE,
                   processors |-> FALSE, storage |-> FALSE],
     toolIds |-> <<"getWeather", "findPlaces", "generateMap">>,
     agentIds |-> <<"trip-planner">>,
     uiComponents |-> ("tool-getWeather" :> "WeatherCard")
                      @@ ("tool-findPlaces" :> "PlacesCard")
                      @@ ("tool-generateMap" :> "GeoJsonCard"),
     schemas |-> [weatherInput |-> "weatherInputSchema",
                  weatherOutput |-> "weatherOutputSchema",
                  placesInput |-> "placesInputSchema",
                  placesOutput |-> "placesOutputSchema",
                  geojsonInput |-> "geojsonInputSchema",
                  geojsonOutput |-> "geojsonOutputSchema"]]

\* a content moderation manifest that claims tools it does not have
contentModerationPluginClaimsTools ==
    [id |-> "content-moderation",
     name |-> "Content Moderation Plugin",
     version |-> "1.0.0",
     features |-> [tools |-> TRUE, agents |-> FALSE, ui |-> FALSE,
                   processors |-> TRUE, storage |-> FALSE],
     processorIds |-> <<"basicModeration", "layeredSecurity", "inputModeration",
                        "outputModeration", "ProfanityFilter", "ResponseLengthGuard">>]

contentModerationPlugin ==
    [id |-> "content-moderation",
     name |-> "Content Moderation Plugin",
     version |-> "1.0.0",
     features |-> [tools |-> FALSE, agents |-> FALSE, ui |-> FALSE,
                   processors |-> TRUE, storage |-> FALSE],
     processorIds |-> <<"basicModeration", "layeredSecurity", "inputModeration",
                        "outputModeration", "ProfanityFilter", "ResponseLengthGuard">>]

\* the manifests as the modules' top-level code creates them
ModuleLoad ==
    (tripPlannerPlugin.id :> tripPlannerPlugin)
    @@ (contentModerationPlugin.id :> contentModerationPlugin)

Kinds == {"tools", "agents", "ui", "processors", "storage"}

\* the plugin packages
Packages ==
    {"trip-planner", "content-moderation", "research-bot", "ask-user-for-stuff",
     "weather-plugin"}

\* the tools created with createTool: id, package, schemas
Tools ==
    [getWeather |-> [plugin |-> "trip-planner", input |-> "weatherInputSchema",
                     output |-> "weatherOutputSchema"],
     findPlaces |-> [plugin |-> "trip-planner", input |-> "placesInputSchema",
                     output |-> "placesOutputSchema"],
     generateMap |-> [plugin |-> "trip-planner", input |-> "geojsonInputSchema",
                      output |-> "geojsonOutputSchema"],
     deepResearch |-> [plugin |-> "research-bot", input |-> "researchInputSchema",
                       output |-> "researchOutputSchema"],
     askForConfirmation |-> [plugin |-> "ask-user-for-stuff",
                             input |-> "confirmationInputSchema",
                             output |-> "confirmationOutputSchema"],
     askMultipleChoice |-> [plugin |-> "ask-user-for-stuff",
                            input |-> "multipleChoiceInputSchema",
                            output |-> "multipleChoiceOutputSchema"],
     askForText |-> [plugin |-> "ask-user-for-stuff", input |-> "textInputSchema",
                     output |-> "textOutputSchema"],
     weatherTool |-> [plugin |-> "weather-plugin", input |-> "genuiWeatherInputSchema",
                      output |-> "genuiWeatherOutputSchema"]]

ToolIds == DOMAIN Tools

\* the agents each package constructs, by the name they register under
AgentsOf ==
    [p \in Packages |->
        CASE p = "trip-planner" -> {tripPlannerConfig.id}
          [] p = "research-bot" -> {"expert-agent", "research-bot"}
          [] p = "ask-user-for-stuff" -> {"ask-user-for-stuff"}
          [] p = "weather-plugin" -> {"weather-plugin"}
          [] OTHER -> {}]

\* the processors processors.ts exports
ProcessorsOf ==
    [p \in Packages |->
        IF p = "content-moderation"
        THEN {"basicModeration", "layeredSecurity", "inputModeration",
              "outputModeration", "ProfanityFilter", "ResponseLengthGuard"}
        ELSE {}]

\* a UI that matches the weather card on a part type no tool produces
UiPartTypesRenamed ==
    [p \in Packages |->
        CASE p = "trip-planner" ->
                {"tool-weather", "tool-findPlaces", "tool-generateMap"}
          [] p = "research-bot" -> {"tool-deepResearch"}
          [] p = "ask-user-for-stuff" ->
                {"tool-askForConfirmation", "tool-askMultipleChoice", "tool-askForText"}
          [] p = "weather-plugin" -> {"tool-weatherTool"}
          [] OTHER -> {}]

\* the part types each package's ui.tsx matches on
UiPartTypes ==
    [p \in Packages |->
        CASE p = "trip-planner" ->
                {"tool-getWeather", "tool-findPlaces", "tool-generateMap"}
          [] p = "research-bot" -> {"tool-deepResearch"}
          [] p = "ask-user-for-stuff" ->
                {"tool-askForConfirmation", "tool-askMultipleChoice", "tool-askForText"}
          [] p = "weather-plugin" -> {"tool-weatherTool"}
          [] OTHER -> {}]

ToolsOf(p) == {id \in ToolIds : Tools[id].plugin = p}

\* the capabilities of one kind that a package provides
Group(p, kind) ==
    CASE kind = "tools" -> ToolsOf(p)
      [] kind = "agents" -> AgentsOf[p]
      [] kind = "ui" -> UiPartTypes[p]
      [] kind = "processors" -> ProcessorsOf[p]
      [] OTHER -> {}

\* the part type the chat stream gives the calls of a tool
PartType(toolId) == "tool-" \o toolId

Range(seq) == {seq[i] : i \in 1..Len(seq)}

\* manifest[field], empty when the manifest has no such field
Listed(m, field) == IF field \in DOMAIN m THEN m[field] ELSE <<>>

\* every identifier a manifest declares, in order
Identifiers(m) ==
    Listed(m, "toolIds") \o Listed(m, "agentIds") \o Listed(m, "processorIds")
    \o (IF "uiComponents" \in DOMAIN m
        THEN LET keys == DOMAIN m.uiComponents
                 RECURSIVE AsSeq(_)
                 AsSeq(ks) == IF ks = {} THEN <<>>
                              ELSE LET k == CHOOSE k \in ks : TRUE
                                   IN <<k>> \o AsSeq(ks \ {k})
             IN AsSeq(keys)
        ELSE <<>>)

-----------------------------------------------------------------------------
(* Tool executors *)

\* confirmationTool.execute({ input }) when the clock reads t
confirmationExecute(input, t) ==
    O(("confirmed" :> B(FALSE))
      @@ ("timestamp" :> S(ToISOString(t)))
      @@ ("__clientSide" :> B(TRUE))
      @@ ("__input" :> input))

\* multipleChoiceTool.execute({ input })
multipleChoiceExecute(input, t) ==
    O(("selected" :> A(<<>>))
      @@ ("timestamp" :> S(ToISOString(t)))
      @@ ("__clientSide" :> B(TRUE))
      @@ ("__input" :> input))

\* textInputTool.execute({ input })
textInputExecute(input, t) ==
    O(("value" :> S(""))
      @@ ("timestamp" :> S(ToISOString(t)))
      @@ ("__clientSide" :> B(TRUE))
      @@ ("__input" :> input))

Threw(message) == [threw |-> TRUE, error |-> message]
Returned(value) == [threw |-> FALSE, value |-> value]

\* forecasts.map(day => ...) of weatherTool.execute
ForecastOf(day) ==
    O([date |-> Get(day, "date"),
       high |-> ParseInt(OrElse(Get(day, "maxtempC"), S("0"))),
       low |-> ParseInt(OrElse(Get(day, "mintempC"), S("0"))),
       description |->
           OrElse(Get(Idx(Get(Idx(Get(day, "hourly"), 4), "weatherDesc"), 0), "value"),
                  S("Unknown"))])

\* weatherTool.execute({ input }) of the trip planner, given the answer of
\* wttr.in
weatherExecute(input, response) ==
    IF ~response.ok
    THEN Threw("Failed to fetch weather for " \o Get(input, "location").v)
    ELSE LET data == response.data
             current == data.current_condition
             forecasts == Slice(data.weather, 3)
         IN Returned(O(
                [location |-> S(data.areaName),
                 temperature |-> ParseInt(S(current.temp_C)),
                 feelsLike |-> ParseInt(S(current.FeelsLikeC)),
                 description |-> S(current.weatherDesc),
                 humidity |-> ParseInt(S(current.humidity)),
                 windSpeed |-> ParseInt(S(current.windspeedKmph)),
                 uvIndex |-> ParseInt(S(current.uvIndex)),
                 forecast |-> A([i \in 1..Len(forecasts) |-> ForecastOf(forecasts[i])])]))

\* weatherTool.execute(inputData) of the generative-ui example
genuiWeatherExecute(input, response) ==
    IF ~response.ok
    THEN Threw("Failed to fetch weather for " \o Get(input, "location").v)
    ELSE LET data == response.data
             current == data.current_condition
         IN Returned(O(
                [location |-> S(data.areaName),
                 temperature |-> ParseInt(S(current.temp_C)),
                 description |-> S(current.weatherDesc),
                 humidity |-> ParseInt(S(current.humidity)),
                 windSpeed |-> ParseInt(S(current.windspeedKmph)),
                 icon |-> S(current.weatherCode)]))

Place(name, description, rating, priceLevel, tags) ==
    O([name |-> S(name), description |-> S(description), rating |-> Frac(rating),
       priceLevel |-> S(priceLevel),
       tags |-> A([i \in 1..Len(tags) |-> S(tags[i])])])

\* the simulated places data of placesTool.execute
placesData ==
    [attractions |->
        <<Place("Historic City Center", "UNESCO World Heritage walking district", 480,
                "Free", <<"history", "walking", "photography">>),
          Place("National Museum", "Art and cultural artifacts from the region", 460,
                "$$", <<"museum", "culture", "indoor">>),
          Place("Botanical Gardens", "Beautiful gardens with rare plant species", 470,
                "$", <<"nature", "gardens", "relaxing">>),
          Place("Observatory Tower", "Panoramic city views from 200m height", 450,
                "$$", <<"views", "photography", "landmark">>),
          Place("Old Market Square", "Traditional market with local crafts and food", 440,
                "$", <<"shopping", "food", "local">>)>>,
     restaurants |->
        <<Place("Local Flavors", "Traditional cuisine with modern twist", 470,
                "$$", <<"local", "dinner", "romantic">>),
          Place("Street Food Market", "Dozens of food stalls in one location", 450,
                "$", <<"casual", "variety", "lunch">>),
          Place("Rooftop Dining", "Fine dining with city views", 480,
                "$$$", <<"upscale", "views", "special occasion">>),
          Place("Family Kitchen", "Homestyle cooking, generous portions", 460,
                "$", <<"family", "comfort food", "value">>),
          Place("Fusion Bistro", "Creative international menu", 440,
                "$$", <<"creative", "international", "trendy">>)>>,
     hotels |->
        <<Place("Grand Central Hotel", "Luxury hotel in city center", 480,
                "$$$", <<"luxury", "central", "spa">>),
          Place("Boutique Inn", "Charming rooms with local character", 460,
                "$$", <<"boutique", "unique", "breakfast">>),
          Place("Budget Hostel", "Clean, social, great location", 430,
                "$", <<"budget", "social", "backpacker">>),
          Place("Beach Resort", "Oceanfront with pool and activities", 470,
                "$$$", <<"beach", "pool", "resort">>),
          Place("Business Suites", "Modern apartments for longer stays", 450,
                "$$", <<"apartments", "kitchen", "workspace">>)>>,
     activities |->
        <<Place("Walking Food Tour", "3-hour guided tour of local cuisine", 490,
                "$$", <<"food", "guided", "walking">>),
          Place("Bike City Tour", "See the highlights on two wheels", 470,
                "$", <<"biking", "active", "sightseeing">>),
          Place("Cooking Class", "Learn to make local dishes", 480,
                "$$", <<"cooking", "hands-on", "food">>),
          Place("Day Trip to Mountains", "Scenic hike with stunning views", 460,
                "$$", <<"hiking", "nature", "day trip">>),
          Place("River Cruise", "Relaxing boat tour with commentary", 450,
                "$$", <<"boat", "relaxing", "scenic">>)>>]

\* array.slice(0, end) for a JavaScript number end (whole units)
SliceTo(seq, end) ==
    LET n == end.v \div Scale
    IN IF n >= 0 THEN Slice(seq, n)
       ELSE SubSeq(seq, 1, IF Len(seq) + n > 0 THEN Len(seq) + n ELSE 0)

\* a places executor that answers from a cache once a call has been made: an
\* executor that keeps state
placesExecuteCached(input) ==
    O([location |-> Get(input, "location"),
       category |-> Get(input, "category"),
       places |-> A(IF prev.kind = "done" THEN <<>>
                    ELSE SliceTo(placesData[Get(input, "category").v],
                                 OrElse(Get(input, "limit"), Num(5))))])

\* placesTool.execute({ input })
placesExecute(input) ==
    LET location == Get(input, "location")
        category == Get(input, "category")
        limit == Get(input, "limit")
        places == IF category.v \in DOMAIN placesData THEN placesData[category.v]
                  ELSE <<>>
    IN O([location |-> location,
          category |-> category,
          places |-> A(SliceTo(places, OrElse(limit, Num(5))))])

markerColors ==
    [attraction |-> "#9333ea", restaurant |-> "#f97316", hotel |-> "#22c55e",
     activity |-> "#ec4899", other |-> "#6b7280"]

\* getMarkerSymbol(type)
getMarkerSymbol(type) ==
    LET symbols == [attraction |-> "monument", restaurant |-> "restaurant",
                    hotel |-> "lodging", activity |-> "pitch", other |-> "marker"]
    IN IF type \in DOMAIN symbols THEN symbols[type] ELSE "marker"

\* points.map(point => ...) of geojsonTool.execute
FeatureOf(point) ==
    LET type == Get(point, "type").v
    IN O([type |-> S("Feature"),
          properties |->
              O(("name" :> Get(point, "name"))
                @@ ("description" :> OrElse(Get(point, "description"), S("")))
                @@ ("markerType" :> Get(point, "type"))
                @@ ("marker-color" :>
                       S(IF type \in DOMAIN markerColors THEN markerColors[type]
                         ELSE markerColors.other))
                @@ ("marker-size" :> S("medium"))
                @@ ("marker-symbol" :> S(getMarkerSymbol(type)))),
          geometry |->
              O([type |-> S("Point"),
                 coordinates |-> A(<<Get(point, "lng"), Get(point, "lat")>>)])])

\* geojsonTool.execute({ input })
geojsonExecute(input) ==
    LET location == Get(input, "location")
        points == Get(input, "points").v
        geojson == O([type |-> S("FeatureCollection"),
                      features |-> A([i \in 1..Len(points) |-> FeatureOf(points[i])])])
        viewerUrl == "https://geojson.io/#data=data:application/json,"
                     \o EncodeJson(geojson)
    IN O([location |-> location,
          geojson |-> geojson,
          viewerUrl |-> S(viewerUrl),
          pointCount |-> Num(Len(points))])

-----------------------------------------------------------------------------
(* parseAnalysis of research-bot/tools.ts, on ASCII text *)

\* s.charAt(i - 1) and s.slice(i - 1)
At(s, i) == IF 1 <= i /\ i <= Len(s) THEN SubSeq(s, i, i) ELSE ""
From(s, i) == IF i <= Len(s) THEN SubSeq(s, i, Len(s)) ELSE ""

RECURSIVE ToLowerCase(_)
\* s.toLowerCase()
ToLowerCase(s) ==
    LET Upper == "ABCDEFGHIJKLMNOPQRSTUVWXYZ"
        Lower == "abcdefghijklmnopqrstuvwxyz"
        c == At(s, 1)
    IN IF s = "" THEN ""
       ELSE (IF \E i \in 1..Len(Upper) : At(Upper, i) = c
             THEN At(Lower, CHOOSE i \in 1..Len(Upper) : At(Upper, i) = c)
             ELSE c) \o ToLowerCase(From(s, 2))

\* s.includes(sub)
Includes(s, sub) ==
    \E i \in 1..Len(s) - Len(sub) + 1 : SubSeq(s, i, i + Len(sub) - 1) = sub

RECURSIVE TrimEnd(_)
TrimEnd(s) ==
    IF s # "" /\ IsSpace(At(s, Len(s))) THEN TrimEnd(SubSeq(s, 1, Len(s) - 1)) ELSE s

\* s.trim()
Trim(s) == TrimEnd(From(s, SkipSpace(s, 1)))

RECURSIVE SplitOn(_, _)
\* s.split(separator) for a separator among the characters seps
SplitOn(s, seps) ==
    IF \E i \in 1..Len(s) : At(s, i) \in seps
    THEN LET i == CHOOSE i \in 1..Len(s) :
                    /\ At(s, i) \in seps
                    /\ \A j \in 1..i - 1 : At(s, j) \notin seps
         IN <<SubSeq(s, 1, i - 1)>> \o SplitOn(From(s, i + 1), seps)
    ELSE <<s>>

\* the number of leading '*' of s, at most two
Stars(s) ==
    IF Len(s) >= 2 /\ SubSeq(s, 1, 2) = "**" THEN 2
    ELSE IF Len(s) >= 1 /\ At(s, 1) = "*" THEN 1 ELSE 0

\* the length of the match of /\*?\*?WORD\*?\*?:?/i at the start of s, or 0
MarkerAt(s, word) ==
    LET ks == {k \in 0..Stars(s) :
                 /\ k + Len(word) <= Len(s)
                 /\ ToLowerCase(SubSeq(s, k + 1, k + Len(word))) = ToLowerCase(word)}
    IN IF ks = {} THEN 0
       ELSE LET k == CHOOSE k \in ks : \A j \in ks : j <= k
                after == k + Len(word)
                tail == Stars(From(s, after + 1))
                colon == IF At(s, after + tail + 1) = ":" THEN 1 ELSE 0
            IN after + tail + colon

RECURSIVE RemoveMarker(_, _)
\* s.replace(/\*?\*?WORD\*?\*?:?/gi, '')
RemoveMarker(s, word) ==
    IF s = "" THEN ""
    ELSE LET n == MarkerAt(s, word)
         IN IF n > 0 THEN RemoveMarker(From(s, n + 1), word)
            ELSE At(s, 1) \o RemoveMarker(From(s, 2), word)

\* a character of the class [-*\d.)]
IsBullet(c) == c \in {"-", "*", ".", ")"} \/ IsDigit(c)

RECURSIVE BulletRun(_, _)
BulletRun(s, i) ==
    IF i <= Len(s) /\ IsBullet(At(s, i)) THEN BulletRun(s, i + 1) ELSE i

\* s.replace(/^[-*\d.)]+\s*/, '')
StripBullet(s) ==
    LET e == BulletRun(s, 1)
    IN IF e = 1 THEN s ELSE From(s, SkipSpace(s, e))

\* s.replace(/^[-*\d.)]+\s+/, '')
StripBulletSpaced(s) ==
    LET e == BulletRun(s, 1)
        f == SkipSpace(s, e)
    IN IF e = 1 \/ f = e THEN s ELSE From(s, f)

\* /^[-*]\s+/.test(s) || /^\d+[.)]\s+/.test(s)
IsListItem(s) ==
    \/ /\ Len(s) >= 2
       /\ At(s, 1) \in {"-", "*"}
       /\ IsSpace(At(s, 2))
    \/ LET e == DigitRun(s, 1)
       IN /\ e > 1
          /\ e + 1 <= Len(s)
          /\ At(s, e) \in {".", ")"}
          /\ IsSpace(At(s, e + 1))

\* the capture of s.match(/(\d+)\s*%/), or "" without a match
PercentMatch(s) ==
    LET starts == {i \in 1..Len(s) :
                     /\ IsDigit(At(s, i))
                     /\ At(s, SkipSpace(s, DigitRun(s, i))) = "%"}
    IN IF starts = {} THEN ""
       ELSE LET i == CHOOSE i \in starts : \A j \in starts : i <= j
            IN SubSeq(s, i, DigitRun(s, i) - 1)

\* the capture of s.match(/:\s*(.+)/) on a trimmed line, or "" without a match
AfterColon(s) ==
    LET colons == {i \in 1..Len(s) - 1 : At(s, i) = ":"}
    IN IF colons = {} THEN ""
       ELSE LET i == CHOOSE i \in colons : \A j \in colons : i <= j
            IN From(s, SkipSpace(s, i + 1))

\* the finding a line with an importance marker contributes
MarkedFinding(trimmed) ==
    LET word == IF Includes(trimmed, "HIGH") THEN "HIGH"
                ELSE IF Includes(trimmed, "MEDIUM") THEN "MEDIUM"
                ELSE IF Includes(trimmed, "LOW") THEN "LOW" ELSE ""
        point == Trim(StripBullet(RemoveMarker(trimmed, word)))
    IN IF word # "" /\ Len(point) > 10
       THEN <<O([point |-> S(point), importance |-> S(ToLowerCase(word))])>>
       ELSE <<>>

\* the related topics a line contributes
TopicsOf(trimmed) ==
    LET lower == ToLowerCase(trimmed)
        topicMatch == AfterColon(trimmed)
    IN IF (Includes(lower, "related") \/ Includes(lower, "connection"))
          /\ topicMatch # ""
       THEN SelectSeq([i \in 1..Len(SplitOn(topicMatch, {",", ";"})) |->
                          Trim(SplitOn(topicMatch, {",", ";"})[i])],
                      LAMBDA t : Len(t) > 2)
       ELSE <<>>

\* the finding a bullet line contributes when no marked finding was found
BulletFinding(trimmed) ==
    LET point == StripBulletSpaced(trimmed)
    IN IF IsListItem(trimmed) /\ Len(point) > 15
       THEN <<O([point |-> S(point), importance |-> S("medium")])>>
       ELSE <<>>

RECURSIVE Unique(_)
\* [...new Set(seq)]
Unique(seq) ==
    IF seq = <<>> THEN <<>>
    ELSE LET init == Unique(SubSeq(seq, 1, Len(seq) - 1))
             last == seq[Len(seq)]
         IN IF \E i \in 1..Len(init) : init[i] = last THEN init ELSE Append(init, last)

RECURSIVE Scan(_, _)
\* the first loop of parseAnalysis over the lines, from the state acc
Scan(lines, acc) ==
    IF lines = <<>> THEN acc
    ELSE LET trimmed == Trim(Head(lines))
             confidenceMatch == PercentMatch(trimmed)
         IN Scan(Tail(lines),
                 [findings |-> acc.findings \o MarkedFinding(trimmed),
                  confidence |->
                      IF confidenceMatch # ""
                         /\ Includes(ToLowerCase(trimmed), "confiden")
                      THEN (ParseInt(S(confidenceMatch)).v) \div 100
                      ELSE acc.confidence,
                  relatedTopics |-> acc.relatedTopics \o TopicsOf(trimmed)])

RECURSIVE Bullets(_)
\* the second loop of parseAnalysis
Bullets(lines) ==
    IF lines = <<>> THEN <<>>
    ELSE BulletFinding(Trim(Head(lines))) \o Bullets(Tail(lines))

\* parseAnalysis without the final Math.max(0, Math.min(1, confidence))
parseAnalysisUnclamped(text) ==
    LET lines == SplitOn(text, {"\n"})
        first == Scan(lines, [findings |-> <<>>, confidence |-> (7 * Scale) \div 10,
                              relatedTopics |-> <<>>])
        findings == IF Len(first.findings) = 0 THEN Bullets(lines) ELSE first.findings
        topics == Unique(first.relatedTopics)
    IN [findings |-> Slice(findings, 6),
        relatedTopics |-> [i \in 1..Len(Slice(topics, 4)) |-> S(Slice(topics, 4)[i])],
        confidence |-> Frac(first.confidence)]

\* a parseAnalysis that returns everything it found
parseAnalysisUncut(text) ==
    LET lines == SplitOn(text, {"\n"})
        first == Scan(lines, [findings |-> <<>>, confidence |-> (7 * Scale) \div 10,
                              relatedTopics |-> <<>>])
        findings == IF Len(first.findings) = 0 THEN Bullets(lines) ELSE first.findings
    IN [findings |-> findings,
        relatedTopics |-> [i \in 1..Len(first.relatedTopics) |-> S(first.relatedTopics[i])],
        confidence |-> Frac(IF first.confidence > Scale THEN Scale
                            ELSE IF first.confidence < 0 THEN 0
                            ELSE first.confidence)]

\* parseAnalysis(text)
parseAnalysis(text) ==
    LET lines == SplitOn(text, {"\n"})
        first == Scan(lines, [findings |-> <<>>, confidence |-> (7 * Scale) \div 10,
                              relatedTopics |-> <<>>])
        findings == IF Len(first.findings) = 0 THEN Bullets(lines) ELSE first.findings
        topics == Unique(first.relatedTopics)
    IN [findings |-> Slice(findings, 6),
        relatedTopics |-> [i \in 1..Len(Slice(topics, 4)) |-> S(Slice(topics, 4)[i])],
        confidence |-> Frac(IF first.confidence > Scale THEN Scale
                            ELSE IF first.confidence < 0 THEN 0
                            ELSE first.confidence)]

-----------------------------------------------------------------------------
(* What the executors receive from outside *)

\* a day of the "weather" array of a wttr.in j1 answer, with n hourly entries
Day(date, maxtempC, mintempC, n) ==
    O([date |-> S(date), maxtempC |-> S(maxtempC), mintempC |-> S(mintempC),
       hourly |-> A([i \in 1..n |->
                       O([weatherDesc |->
                             A(<<O([value |-> S(IF i = 5 THEN "Sunny"
                                                ELSE "Clear")])>>)])])])

\* answers of fetch('https://wttr.in/...?format=j1'): an HTTP error, and j1
\* documents with four, one and no forecast days
WeatherResponses ==
    {[ok |-> FALSE],
     [ok |-> TRUE,
      data |-> [areaName |-> "Paris",
                current_condition |->
                    [temp_C |-> "21", FeelsLikeC |-> "20", weatherDesc |-> "Sunny",
                     humidity |-> "40", windspeedKmph |-> "7", uvIndex |-> "5",
                     weatherCode |-> "113"],
                weather |-> <<Day("2026-01-31", "22", "12", 8),
                              Day("2026-02-01", "", "-3", 8),
                              Without(Day("2026-02-02", "19", "9", 3), "mintempC"),
                              Day("2026-02-03", "18", "8", 8)>>]],
     [ok |-> TRUE,
      data |-> [areaName |-> "Oslo",
                current_condition |->
                    [temp_C |-> "-4", FeelsLikeC |-> "-9", weatherDesc |-> "Snow",
                     humidity |-> "90", windspeedKmph |-> "0", uvIndex |-> "1",
                     weatherCode |-> "338"],
                weather |-> <<>>]]}

\* texts the expert agent streams
ExpertTexts ==
    {"1. **Overview**: Quantum computers use qubits\n"
        \o "- **HIGH**: Error correction is the main obstacle\n"
        \o "- MEDIUM: Hardware is scaling quickly\n"
        \o "- LOW: short\n"
        \o "Connections: cryptography, AI; materials science\n"
        \o "Confidence: 85%",
     "Findings\n"
        \o "- Qubits are fragile and need cooling\n"
        \o "2) Investment is growing every year\n"
        \o "Related: cryptography, cryptography, sensing\n"
        \o "I am confident: 150 %",
     "- HIGH: finding 1 of 7\n"
        \o "- HIGH: finding 2 of 7\n"
        \o "- MEDIUM: finding 3 of 7\n"
        \o "- MEDIUM: finding 4 of 7\n"
        \o "- LOW: finding 5 of 7\n"
        \o "- LOW: finding 6 of 7\n"
        \o "- LOW: finding 7 of 7\n"
        \o "Related: art, bio, art, law, math, sea\n"
        \o "Up 30% in a year",
     ""}

Point(name, lat, lng) == O([name |-> S(name), lat |-> Frac(lat), lng |-> Frac(lng)])

\* candidate inputs a model hands to each tool
Candidates ==
    [askForConfirmation |->
        {RequiredOnly.confirmationInputSchema, ConfirmationScenario},
     askMultipleChoice |->
        {RequiredOnly.multipleChoiceInputSchema,
         With(RequiredOnly.multipleChoiceInputSchema, "allowMultiple", B(TRUE))},
     askForText |->
        {RequiredOnly.textInputSchema,
         With(RequiredOnly.textInputSchema, "placeholder", S("Ann"))},
     getWeather |-> {RequiredOnly.weatherInputSchema},
     findPlaces |->
        {RequiredOnly.placesInputSchema,
         With(RequiredOnly.placesInputSchema, "limit", Num(2)),
         With(RequiredOnly.placesInputSchema, "limit", Num(0)),
         With(RequiredOnly.placesInputSchema, "limit", Num(-1))},
     generateMap |->
        {RequiredOnly.geojsonInputSchema,
         O([location |-> S("Paris"), points |-> A(<<>>)]),
         O([location |-> S("Paris"),
            points |-> A(<<With(With(Point("Ritz", 4887, 233), "type", S("hotel")),
                                "description", S("Place Vendome")),
                           With(Point("Louvre", 4886, 234), "description", S(""))>>)])},
     deepResearch |->
        {RequiredOnly.researchInputSchema,
         With(RequiredOnly.researchInputSchema, "depth", S("quick"))},
     weatherTool |-> {RequiredOnly.genuiWeatherInputSchema}]

\* the validated inputs an executor can be handed: z.infer of its input schema
ValidatedInputs(tool) ==
    {SafeParse(Schemas[Tools[tool].input], raw).data :
        raw \in {c \in Candidates[tool] : SafeParse(Schemas[Tools[tool].input], c).ok}}

\* the execution contexts: with or without the Mastra instance and the writer
Contexts == [mastra : BOOLEAN, writer : BOOLEAN]

-----------------------------------------------------------------------------
(* The host application: imports plugin packages, registers agents with     *)
(* Mastra, and runs the tool calls its agents make                          *)

\* the agent whose `tools` holds each tool
ToolOwner == [tool \in ToolIds |-> Tools[tool].plugin]

\* new PluginRegistry(): an empty plugins map, no hook called yet
NoRegistry == [plugins |-> <<>>, hooks |-> <<>>, last |-> [op |-> "none"]]
\* no run of the order workflow has been created
NoRun ==
    [status |-> "none", pc |-> "none", order |-> Undef, input |-> Undef,
     engine |-> "none", todo |-> {}, ran |-> <<>>, results |-> <<>>,
     suspendPayload |-> Undef, resumeData |-> Undef, resumed |-> <<>>,
     progress |-> <<>>, output |-> Undef]
NoChat == [pc |-> "none"]
NoRequest == [pc |-> "none"]

\* no BasePlugin has been constructed
NoLifecycle == [pc |-> "none", state |-> "none"]

\* the demo component has not been mounted
NoDemo == [pc |-> "none"]

Idle == [pc |-> "idle"]
NoPrev == [kind |-> "none"]

Init ==
    /\ manifests = <<>>
    /\ loaded = {}
    /\ started = FALSE
    /\ agents = {}
    /\ now = 0
    /\ call = Idle
    /\ events = <<>>
    /\ prev = NoPrev
    /\ vcase = NoCase
    /\ registry = NoRegistry
    /\ run = NoRun
    /\ chat = NoChat
    /\ request = NoRequest
    /\ lifecycle = NoLifecycle
    /\ demo = NoDemo

\* import of a plugin package: its modules' top-level code runs once
ImportPlugin(p) ==
    /\ ~started
    /\ p \notin loaded
    /\ loaded' = loaded \cup {p}
    /\ manifests' = IF p \in DOMAIN ModuleLoad
                    THEN manifests @@ (p :> ModuleLoad[p])
                    ELSE manifests
    /\ UNCHANGED <<started, agents, now, call, events, prev, vcase, registry, run, chat, request, lifecycle, demo>>

\* a host that stamps the manifests it aggregates at startup
StartMastraStamping(registered) ==
    /\ ~started
    /\ registered \subseteq UNION {AgentsOf[p] : p \in loaded}
    /\ started' = TRUE
    /\ agents' = registered
    /\ manifests' = [p \in DOMAIN manifests |->
                        [manifests[p] EXCEPT !.version = "registered"]]
    /\ UNCHANGED <<loaded, now, call, events, prev, vcase, registry, run, chat, request, lifecycle, demo>>

\* new Mastra({ agents: registered })
StartMastra(registered) ==
    /\ ~started
    /\ registered \subseteq UNION {AgentsOf[p] : p \in loaded}
    /\ started' = TRUE
    /\ agents' = registered
    /\ UNCHANGED <<manifests, loaded, now, call, events, prev, vcase, registry, run, chat, request, lifecycle, demo>>

\* time passes
Tick ==
    /\ now < MaxClock
    /\ now' = now + 1
    /\ UNCHANGED <<manifests, loaded, started, agents, call, events, prev, vcase, registry, run, chat, request, lifecycle, demo>>

\* an agent calls one of its tools: execute({ input, context }) begins
Invoke(tool, input, ctx) ==
    /\ started
    /\ ToolOwner[tool] \in agents
    /\ call.pc = "idle"
    /\ call' = [pc |-> "executing", tool |-> tool, input |-> input, ctx |-> ctx,
                ext |-> "none"]
    /\ events' = <<>>
    /\ UNCHANGED <<manifests, loaded, started, agents, now, prev, vcase, registry, run, chat, request, lifecycle, demo>>

Executing(tool) == call.pc = "executing" /\ call.tool = tool

\* execute returns value
Return(value) ==
    call' = [pc |-> "returned", tool |-> call.tool, input |-> call.input,
             ctx |-> call.ctx, ext |-> call.ext, out |-> value]

\* execute throws
Throw(message) ==
    call' = [pc |-> "failed", tool |-> call.tool, input |-> call.input,
             ctx |-> call.ctx, ext |-> call.ext, error |-> message]

Settle(result) == IF result.threw THEN Throw(result.error) ELSE Return(result.value)

Frame == UNCHANGED <<manifests, loaded, started, agents, now, events, prev, vcase, registry, run, chat, request, lifecycle, demo>>

ExecConfirmation ==
    /\ Executing("askForConfirmation")
    /\ Return(confirmationExecute(call.input, now))
    /\ Frame

ExecMultipleChoice ==
    /\ Executing("askMultipleChoice")
    /\ Return(multipleChoiceExecute(call.input, now))
    /\ Frame

ExecTextInput ==
    /\ Executing("askForText")
    /\ Return(textInputExecute(call.input, now))
    /\ Frame

\* await fetch(`https://wttr.in/...`) answers
FetchWeather(response) ==
    /\ call.pc = "executing"
    /\ call.tool \in {"getWeather", "weatherTool"}
    /\ call' = [call EXCEPT !.pc = "fetched", !.ext = response]
    /\ Frame

ExecWeather ==
    /\ call.pc = "fetched"
    /\ call.tool = "getWeather"
    /\ Settle(weatherExecute(call.input, call.ext))
    /\ Frame

ExecGenuiWeather ==
    /\ call.pc = "fetched"
    /\ call.tool = "weatherTool"
    /\ Settle(genuiWeatherExecute(call.input, call.ext))
    /\ Frame

ExecPlaces ==
    /\ Executing("findPlaces")
    /\ Return(placesExecute(call.input))
    /\ Frame

ExecGeojson ==
    /\ Executing("generateMap")
    /\ Return(geojsonExecute(call.input))
    /\ Frame

(* deepResearchTool.execute, one action per await *)

\* context?.writer?.custom(event)
Emit(event) ==
    events' = IF call.ctx.writer THEN Append(events, event) ELSE events

Goto(pc) == call' = [call EXCEPT !.pc = pc]

DrFrame == UNCHANGED <<manifests, loaded, started, agents, now, prev, vcase, registry, run, chat, request, lifecycle, demo>>

\* step 1: the 'starting' event
DrStart ==
    /\ Executing("deepResearch")
    /\ Emit([type |-> "research-phase", phase |-> "starting",
             topic |-> Get(call.input, "topic"), depth |-> Get(call.input, "depth"),
             timestamp |-> ToISOString(now)])
    /\ Goto("getAgent")
    /\ DrFrame

\* step 2 without the `if (!expertAgent) throw`
DrGetAgentUnchecked ==
    /\ call.pc = "getAgent"
    /\ Goto("analyzing")
    /\ UNCHANGED events
    /\ DrFrame

\* step 2: context?.mastra?.getAgent('expert-agent')
DrGetAgent ==
    /\ call.pc = "getAgent"
    /\ IF call.ctx.mastra /\ "expert-agent" \in agents
       THEN Goto("analyzing")
       ELSE Throw("Expert agent not available. Make sure it is registered with Mastra.")
    /\ UNCHANGED events
    /\ DrFrame

\* step 4: the 'analyzing' event
DrAnalyzing ==
    /\ call.pc = "analyzing"
    /\ Emit([type |-> "research-phase", phase |-> "analyzing",
             message |-> "Expert agent is thinking...",
             timestamp |-> ToISOString(now)])
    /\ Goto("stream")
    /\ DrFrame

\* expertAgent.stream(...) answers with a stream of text
DrStream(text) ==
    /\ call.pc = "stream"
    /\ call' = [call EXCEPT !.pc = "pipe", !.ext = text]
    /\ UNCHANGED events
    /\ DrFrame

\* a step 5 that announces 'complete' before the stream has been piped
DrPipeAnnouncing ==
    /\ call.pc = "pipe"
    /\ events' = IF call.ctx.writer
                 THEN events \o <<[type |-> "research-phase", phase |-> "complete",
                                   timestamp |-> ToISOString(now)],
                                  [type |-> "agent-stream", text |-> call.ext]>>
                 ELSE events
    /\ Goto("parse")
    /\ DrFrame

\* step 5: stream.fullStream.pipeTo(context.writer), then stream.text
DrPipe ==
    /\ call.pc = "pipe"
    /\ Emit([type |-> "agent-stream", text |-> call.ext])
    /\ Goto("complete")
    /\ DrFrame

\* step 6: the 'complete' event
DrComplete ==
    /\ call.pc = "complete"
    /\ Emit([type |-> "research-phase", phase |-> "complete",
             timestamp |-> ToISOString(now)])
    /\ Goto("parse")
    /\ DrFrame

\* the object deepResearchTool.execute returns for the analysis text
deepResearchResult(input, analysisText) ==
    LET parsed == parseAnalysis(analysisText)
    IN O([topic |-> Get(input, "topic"),
          summary |-> S(analysisText),
          keyFindings |-> A(parsed.findings),
          relatedTopics |-> A(parsed.relatedTopics),
          confidence |-> parsed.confidence])

DrReturn ==
    /\ call.pc = "parse"
    /\ Return(deepResearchResult(call.input, call.ext))
    /\ UNCHANGED events
    /\ DrFrame

Settled == call.pc \in {"returned", "failed"}

\* the caller has received the outcome; the next call can start
Complete ==
    /\ Settled
    /\ call' = Idle
    /\ UNCHANGED <<manifests, loaded, started, agents, now, events, prev, vcase, registry, run, chat, request, lifecycle, demo>>

Execute ==
    \/ ExecConfirmation
    \/ ExecMultipleChoice
    \/ ExecTextInput
    \/ \E response \in WeatherResponses : FetchWeather(response)
    \/ ExecWeather
    \/ ExecGenuiWeather
    \/ ExecPlaces
    \/ ExecGeojson
    \/ DrStart
    \/ DrGetAgent
    \/ DrAnalyzing
    \/ \E text \in ExpertTexts : DrStream(text)
    \/ DrPipe
    \/ DrComplete
    \/ DrReturn

Next ==
    \/ \E p \in Packages : ImportPlugin(p)
    \/ \E registered \in SUBSET UNION {AgentsOf[p] : p \in Packages} :
            StartMastra(registered)
    \/ Tick
    \/ \E tool \in ToolIds : \E input \in ValidatedInputs(tool) : \E ctx \in Contexts :
            Invoke(tool, input, ctx)
    \/ Execute
    \/ Complete

Spec == Init /\ [][Next]_vars

-----------------------------------------------------------------------------
(* Schema validation alone *)

NextValidate ==
    \/ \E name \in DOMAIN Schemas : ValidateSample(name, ValidSample(name))
    \/ ValidateSample("confirmationInputSchema", ConfirmationScenario)
    \/ ValidateMalformed("weatherOutputSchema", WeatherWithoutForecast)
    \/ \E name \in DOMAIN Schemas :
        \E m \in Malformed(Schemas[name], ValidSample(name), <<>>) :
            ValidateMalformed(name, m)
    \/ ValidateAgain

SpecValidate == Init /\ [][NextValidate]_vars

-----------------------------------------------------------------------------
(* One invocation repeated: a started host runs a tool call, and the same   *)
(* call again                                                               *)

InitTwice ==
    /\ manifests = ModuleLoad
    /\ loaded = Packages
    /\ started = TRUE
    /\ agents = UNION {AgentsOf[p] : p \in Packages}
    /\ now = 0
    /\ call = Idle
    /\ events = <<>>
    /\ prev = NoPrev
    /\ vcase = NoCase
    /\ registry = NoRegistry
    /\ run = NoRun
    /\ chat = NoChat
    /\ request = NoRequest
    /\ lifecycle = NoLifecycle
    /\ demo = NoDemo

\* the first call has settled: keep its outcome and what it wrote
CompleteFirst ==
    /\ Settled
    /\ prev = NoPrev
    /\ prev' = [kind |-> "done", call |-> call, events |-> events]
    /\ call' = Idle
    /\ UNCHANGED <<manifests, loaded, started, agents, now, events, vcase, registry, run, chat, request, lifecycle, demo>>

\* the agent makes the same call again
InvokeAgain ==
    /\ prev # NoPrev
    /\ call.pc = "idle"
    /\ call' = [pc |-> "executing", tool |-> prev.call.tool, input |-> prev.call.input,
                ctx |-> prev.call.ctx, ext |-> "none"]
    /\ events' = <<>>
    /\ UNCHANGED <<manifests, loaded, started, agents, now, prev, vcase, registry, run, chat, request, lifecycle, demo>>

InvokeFirst ==
    /\ prev = NoPrev
    /\ \E tool \in ToolIds : \E input \in ValidatedInputs(tool) : \E ctx \in Contexts :
            Invoke(tool, input, ctx)

NextTwice ==
    \/ Tick
    \/ InvokeFirst
    \/ Execute
    \/ CompleteFirst
    \/ InvokeAgain

SpecTwice == InitTwice /\ [][NextTwice]_vars

-----------------------------------------------------------------------------
(* The plugin registry pattern of research/plugin-architecture-patterns.md  *)

\* an AIPlugin object: obj tells two objects with equal content apart; an
\* absent optional field is undefined; hook says whether it has register()
AIPlugin(obj, name, tools, agentList, hook) ==
    [obj |-> obj, name |-> name, tools |-> tools, agents |-> agentList, hook |-> hook]

\* the plugin objects handed to the registry and to the type guards
Plugins ==
    {AIPlugin(1, "search", [list |-> <<"search", "fetch">>], Undef, TRUE),
     AIPlugin(2, "search", [list |-> <<>>], [list |-> <<"helper">>], TRUE),
     AIPlugin(3, "notes", Undef, [list |-> <<>>], FALSE),
     AIPlugin(4, "notes", Undef, Undef, TRUE),
     AIPlugin(5, "maps", [list |-> <<"geocode">>], [list |-> <<"guide">>], TRUE)}

\* hasTools(plugin)
hasTools(plugin) == plugin.tools # Undef

\* hasAgents(plugin)
hasAgents(plugin) == plugin.agents # Undef

\* map.has(key), for a Map kept as its entries in insertion order
MapHas(map, key) == \E i \in 1..Len(map) : map[i].key = key

\* map.set(key, value): an existing key keeps its place
MapSet(map, key, value) ==
    IF MapHas(map, key)
    THEN [i \in 1..Len(map) |->
            IF map[i].key = key THEN [key |-> key, value |-> value] ELSE map[i]]
    ELSE Append(map, [key |-> key, value |-> value])

RegistryFrame ==
    UNCHANGED <<manifests, loaded, started, agents, now, call, events, prev, vcase,
                run, chat, request, lifecycle, demo>>

\* a register() that stores without looking for the name first
RegisterOverwriting(plugin) ==
    /\ registry' =
          [plugins |-> MapSet(registry.plugins, plugin.name, plugin),
           hooks |-> IF plugin.hook THEN Append(registry.hooks, plugin.obj)
                     ELSE registry.hooks,
           last |-> [op |-> "register", plugin |-> plugin, threw |-> FALSE]]
    /\ RegistryFrame

\* PluginRegistry.register(plugin)
Register(plugin) ==
    /\ registry' =
          IF MapHas(registry.plugins, plugin.name)
          THEN [registry EXCEPT
                   !.last = [op |-> "register", plugin |-> plugin, threw |-> TRUE,
                             error |-> "Plugin " \o plugin.name \o " already registered"]]
          ELSE [plugins |-> MapSet(registry.plugins, plugin.name, plugin),
                hooks |-> IF plugin.hook THEN Append(registry.hooks, plugin.obj)
                          ELSE registry.hooks,
                last |-> [op |-> "register", plugin |-> plugin, threw |-> FALSE]]
    /\ RegistryFrame

\* the host asks the type guards about a plugin object
CheckGuards(plugin) ==
    /\ registry' = [registry EXCEPT
                       !.last = [op |-> "guard", plugin |-> plugin,
                                 hasTools |-> hasTools(plugin),
                                 hasAgents |-> hasAgents(plugin),
                                 after |-> plugin]]
    /\ RegistryFrame

NextRegistry ==
    \/ \E plugin \in Plugins : Register(plugin)
    \/ \E plugin \in Plugins : CheckGuards(plugin)

SpecRegistry == Init /\ [][NextRegistry]_vars

-----------------------------------------------------------------------------
(* The order-processing workflow of the branching-workflow example          *)

\* the amount above which a priority order waits for approval
ApprovalThreshold == 1000

OrderItem == [sku |-> "SKU-1", quantity |-> 1, name |-> "Product"]

\* orders the workflow's inputSchema lets through
Orders ==
    [orderId : {"A1", "ORD-7"},
     orderType : {"standard", "express", "priority"},
     amount : {1, ApprovalThreshold, ApprovalThreshold + 1},
     items : {<<>>, <<OrderItem>>},
     customerEmail : {"customer@example.com"}]

\* what handleApprove and handleReject pass to run.resume
ResumeDatas ==
    {O([approved |-> approved, approverNotes |-> notes]) :
        approved \in {B(TRUE), B(FALSE)},
        notes \in {Undef, S(""), S("Verified by finance")}}

Progress(step, status, message) ==
    [type |-> "workflow-progress",
     data |-> [step |-> step, status |-> status, message |-> message]]

Returns(result, emitted) == [kind |-> "return", result |-> result, emitted |-> emitted]
Suspends(payload, emitted) == [kind |-> "suspend", payload |-> payload, emitted |-> emitted]

\* `${prefix}-${orderId}-${Date.now()}`
TrackingNumber(prefix, orderId, clock) ==
    prefix \o "-" \o orderId \o "-" \o ToString(clock)

validateOrderStep(inputData) ==
    LET errors ==
            (IF inputData.amount <= 0
             THEN <<"Order amount must be positive">> ELSE <<>>)
            \o (IF Len(inputData.items) = 0
                THEN <<"Order must contain at least one item">> ELSE <<>>)
        passed == Len(errors) = 0
    IN Returns([isValid |-> passed,
                validatedOrder |-> inputData,
                validationErrors |-> errors],
               <<Progress("validate-order",
                          IF passed THEN "passed" ELSE "failed",
                          "Validation " \o (IF passed THEN "successful" ELSE "failed"))>>)

standardProcessingStep(inputData, clock) ==
    LET trackingNumber == TrackingNumber("STD", inputData.validatedOrder.orderId, clock)
    IN Returns(O([success |-> B(TRUE),
                  message |-> S("Standard order processed successfully"),
                  data |-> O([trackingNumber |-> S(trackingNumber),
                              shippingEstimate |-> S("5-7 business days"),
                              processingTime |-> Num(500)])]),
               <<Progress("standard-processing", "processing",
                          "Processing standard order..."),
                 Progress("standard-processing", "completed",
                          "Standard processing complete. Tracking: " \o trackingNumber)>>)

expressProcessingStep(inputData, clock) ==
    LET trackingNumber == TrackingNumber("EXP", inputData.validatedOrder.orderId, clock)
    IN Returns(O([success |-> B(TRUE),
                  message |-> S("Express order processed successfully"),
                  data |-> O([trackingNumber |-> S(trackingNumber),
                              shippingEstimate |-> S("1-2 business days"),
                              processingTime |-> Num(200)])]),
               <<Progress("express-processing", "processing",
                          "Processing express order with priority..."),
                 Progress("express-processing", "completed",
                          "Express processing complete. Tracking: " \o trackingNumber)>>)

\* a priority step that processes without looking at the approval
priorityProcessingStepUnapproved(inputData, resumeData, clock) ==
    LET validatedOrder == inputData.validatedOrder
        approverNotes == Get(resumeData, "approverNotes")
        trackingNumber == TrackingNumber("PRI", validatedOrder.orderId, clock)
    IN Returns(O([success |-> B(TRUE),
                  message |-> S("Priority order processed successfully"),
                  data |-> O([trackingNumber |-> S(trackingNumber),
                              shippingEstimate |-> S("Same day or next business day"),
                              processingTime |-> Num(100),
                              approverNotes |-> approverNotes])]),
               <<Progress("priority-processing", "processing",
                          "Processing priority order..."),
                 Progress("priority-processing", "completed",
                          "Priority processing complete. Tracking: " \o trackingNumber)>>)

\* a priority step that asks again after every answer but an approval, as the
\* README's excerpt does
priorityProcessingStepAskingAgain(inputData, resumeData, clock) ==
    LET validatedOrder == inputData.validatedOrder
        approved == Get(resumeData, "approved")
    IN IF validatedOrder.amount > ApprovalThreshold /\ approved # B(TRUE)
       THEN Suspends([reason |-> "High-value priority order requires manual approval",
                      orderDetails |-> [orderId |-> validatedOrder.orderId,
                                        amount |-> validatedOrder.amount,
                                        customerEmail |-> validatedOrder.customerEmail]],
                     <<Progress("priority-processing", "suspended",
                                "High-value priority order requires approval")>>)
       ELSE priorityProcessingStepUnapproved(inputData, resumeData, clock)

priorityProcessingStep(inputData, resumeData, clock) ==
    LET validatedOrder == inputData.validatedOrder
        approved == Get(resumeData, "approved")
        approverNotes == Get(resumeData, "approverNotes")
        trackingNumber == TrackingNumber("PRI", validatedOrder.orderId, clock)
    IN IF validatedOrder.amount > ApprovalThreshold /\ approved = Undef
       THEN Suspends([reason |-> "High-value priority order requires manual approval",
                      orderDetails |-> [orderId |-> validatedOrder.orderId,
                                        amount |-> validatedOrder.amount,
                                        customerEmail |-> validatedOrder.customerEmail]],
                     <<Progress("priority-processing", "suspended",
                                "High-value priority order requires approval")>>)
       ELSE IF approved = B(FALSE)
       THEN Returns(O([success |-> B(FALSE),
                       message |-> S("Order rejected: "
                                     \o OrElse(approverNotes, S("No reason provided")).v),
                       data |-> O([processingTime |-> Num(0)])]),
                    <<>>)
       ELSE Returns(O([success |-> B(TRUE),
                       message |-> S("Priority order processed successfully"),
                       data |-> O([trackingNumber |-> S(trackingNumber),
                                   shippingEstimate |-> S("Same day or next business day"),
                                   processingTime |-> Num(100),
                                   approverNotes |-> approverNotes])]),
                    <<Progress("priority-processing", "processing",
                               "Processing priority order..."),
                      Progress("priority-processing", "completed",
                               "Priority processing complete. Tracking: " \o trackingNumber)>>)

\* [a, b].filter(Boolean)
FilterBoolean(seq) ==
    SelectSeq(seq, LAMBDA x : OrElse(x, Undef) # Undef)

finalizeOrderStep(inputData) ==
    LET success == Get(inputData, "success")
        message == Get(inputData, "message")
        data == Get(inputData, "data")
        trackingNumber == Get(data, "trackingNumber")
        pieces == IF trackingNumber = Undef THEN <<>>
                  ELSE SplitOn(trackingNumber.v, {"-"})
        orderId == OrElse(IF Len(pieces) >= 2 THEN S(pieces[2]) ELSE Undef,
                          S("unknown"))
    IN Returns(O([orderId |-> orderId,
                  status |-> S(IF success = B(TRUE) THEN "processed" ELSE "failed"),
                  shippingEstimate |-> OrElse(Get(data, "shippingEstimate"), S("Unknown")),
                  trackingNumber |-> trackingNumber,
                  processingTime |-> OrElse(Get(data, "processingTime"), Num(0)),
                  notes |-> A(FilterBoolean(<<message, Get(data, "approverNotes")>>))]),
               <<Progress("finalize-order", "completed", "Order finalized")>>)

\* the [condition, step] pairs handed to .branch, in order
Branches ==
    <<[step |-> "standard-processing",
       condition |-> [order \in Orders |-> order.orderType = "standard"]],
      [step |-> "express-processing",
       condition |-> [order \in Orders |-> order.orderType = "express"]],
      [step |-> "priority-processing",
       condition |-> [order \in Orders |-> TRUE]]>>

\* the branches whose condition holds for the validated order
Matching(inputData) ==
    {i \in DOMAIN Branches : Branches[i].condition[inputData.validatedOrder]}

\* The steps the engine runs of a branch list: the library decides whether the
\* first branch whose condition holds is taken or every such branch.
Taken(inputData, engine) ==
    LET matching == Matching(inputData)
        first == CHOOSE i \in matching : \A j \in matching : i <= j
    IN {Branches[i].step : i \in IF engine = "first" THEN {first} ELSE matching}

WorkflowFrame ==
    UNCHANGED <<manifests, loaded, started, agents, now, call, events, prev, vcase,
                registry, chat, request, lifecycle, demo>>

\* run.start({ inputData: order }) up to the end of validateOrderStep
StartRun(order) ==
    /\ run.status = "none"
    /\ LET step == validateOrderStep(order)
       IN run' = [run EXCEPT !.status = "running", !.pc = "branch",
                             !.order = order, !.input = step.result,
                             !.progress = step.emitted]
    /\ WorkflowFrame

\* .branch([...]): the conditions are evaluated on validateOrderStep's output
Branch(engine) ==
    /\ run.status = "running"
    /\ run.pc = "branch"
    /\ run' = [run EXCEPT !.pc = "steps", !.engine = engine,
                          !.todo = Taken(run.input, engine)]
    /\ WorkflowFrame

\* what a processing step's execute does to the run
Executed(step, outcome) ==
    IF outcome.kind = "suspend"
    THEN [run EXCEPT !.status = "suspended",
                     !.ran = Append(@, step),
                     !.suspendPayload = outcome.payload,
                     !.progress = @ \o outcome.emitted]
    ELSE [run EXCEPT !.todo = @ \ {step},
                     !.ran = Append(@, step),
                     !.results = Append(@, [step |-> step, result |-> outcome.result]),
                     !.progress = @ \o outcome.emitted]

StandardProcessing ==
    /\ run.status = "running"
    /\ run.pc = "steps"
    /\ "standard-processing" \in run.todo
    /\ run' = Executed("standard-processing", standardProcessingStep(run.input, now))
    /\ WorkflowFrame

ExpressProcessing ==
    /\ run.status = "running"
    /\ run.pc = "steps"
    /\ "express-processing" \in run.todo
    /\ run' = Executed("express-processing", expressProcessingStep(run.input, now))
    /\ WorkflowFrame

PriorityProcessing ==
    /\ run.status = "running"
    /\ run.pc = "steps"
    /\ "priority-processing" \in run.todo
    /\ run' = Executed("priority-processing",
                       priorityProcessingStep(run.input, run.resumeData, now))
    /\ WorkflowFrame

\* run.resume({ step: priorityProcessingStep, resumeData })
Resume(resumeData) ==
    /\ run.status = "suspended"
    /\ run' = [run EXCEPT !.status = "running",
                          !.resumeData = resumeData,
                          !.resumed = Append(@, resumeData),
                          !.suspendPayload = Undef]
    /\ WorkflowFrame

\* .then(finalizeOrderStep) on the result of a branch that ran
Finalize ==
    /\ run.status = "running"
    /\ run.pc = "steps"
    /\ run.todo = {}
    /\ \E i \in DOMAIN run.results :
          LET step == finalizeOrderStep(run.results[i].result)
          IN run' = [run EXCEPT !.status = "success", !.pc = "done",
                                !.output = step.result,
                                !.progress = @ \o step.emitted]
    /\ WorkflowFrame

NextWorkflow ==
    \/ Tick
    \/ \E order \in Orders : StartRun(order)
    \/ \E engine \in {"first", "every"} : Branch(engine)
    \/ StandardProcessing
    \/ ExpressProcessing
    \/ PriorityProcessing
    \/ \E resumeData \in ResumeDatas : Resume(resumeData)
    \/ Finalize

SpecWorkflow == Init /\ [][NextWorkflow]_vars

-----------------------------------------------------------------------------
(* A tool call part of a chat message and the example UIs that render it    *)

\* how many times a streaming state is prolonged by another chunk
MaxChunks == 1

ToolStates ==
    {"input-streaming", "input-available", "output-streaming",
     "output-available", "output-error"}

\* a state machine in which a failed call goes back to input-available
TransitionsRetrying(state) ==
    CASE state = "input-streaming" -> {"input-streaming", "input-available"}
      [] state = "input-available" ->
            {"output-streaming", "output-available", "output-error"}
      [] state = "output-streaming" ->
            {"output-streaming", "output-available", "output-error"}
      [] state = "output-error" -> {"input-available"}
      [] OTHER -> {}

\* the arrows of the documented tool state machines, taken together
Transitions(state) ==
    CASE state = "input-streaming" -> {"input-streaming", "input-available"}
      [] state = "input-available" ->
            {"output-streaming", "output-available", "output-error"}
      [] state = "output-streaming" ->
            {"output-streaming", "output-available", "output-error"}
      [] OTHER -> {}

\* the tools whose execute returns a placeholder and whose output comes from
\* the user
ClientSideTools == ToolsOf("ask-user-for-stuff")

\* the switch over part.state in each example UI: the component it returns
Renderer(ui, type, state) ==
    CASE ui = "weather-plugin" /\ type = "tool-weatherTool" ->
            (CASE state = "input-streaming" -> "Skeleton"
               [] state = "input-available" -> "Loader"
               [] state = "output-streaming" -> "WeatherCard (faded)"
               [] state = "output-available" -> "WeatherCard"
               [] state = "output-error" -> "Error"
               [] OTHER -> "null")
      [] ui = "trip-planner" /\ type \in UiPartTypes[ui] ->
            (CASE state \in {"input-streaming", "input-available"} -> "ToolSkeleton"
               [] state = "output-available" -> "Card"
               [] state = "output-error" -> "Error"
               [] OTHER -> "null")
      [] ui = "research-bot" /\ type = "tool-deepResearch" ->
            (CASE state \in {"input-streaming", "input-available"} -> "Skeleton"
               [] state = "output-available" -> "ResearchCard"
               [] state = "output-error" -> "Error"
               [] OTHER -> "null")
      [] ui = "ask-user-for-stuff" /\ type \in UiPartTypes[ui] ->
            (CASE state \in {"input-streaming", "input-available"} -> "Panel"
               [] state = "output-available" -> "Completed"
               [] OTHER -> "null")
      [] OTHER -> "null"

\* what the user can answer in the panel of each client-side tool
Responses(tool) ==
    CASE tool = "askForConfirmation" -> {B(TRUE), B(FALSE)}
      [] tool = "askMultipleChoice" -> {A(<<S("a")>>)}
      [] tool = "askForText" -> {S("hello")}
      [] OTHER -> {}

\* the result the panel's onRespond hands to addToolResult
UserResult(tool, response, t) ==
    O(((CASE tool = "askForConfirmation" -> "confirmed"
          [] tool = "askMultipleChoice" -> "selected"
          [] OTHER -> "value") :> response)
      @@ ("timestamp" :> S(ToISOString(t))))

\* the placeholder a client-side tool's execute returns
Placeholder(tool, input, t) ==
    CASE tool = "askForConfirmation" -> confirmationExecute(input, t)
      [] tool = "askMultipleChoice" -> multipleChoiceExecute(input, t)
      [] OTHER -> textInputExecute(input, t)

ChatFrame ==
    UNCHANGED <<manifests, loaded, started, agents, now, call, events, prev, vcase,
                registry, run, request, lifecycle, demo>>

\* the part moves to another state and React renders the message again
Moved(to) ==
    [chat EXCEPT !.state = to,
                 !.trace = IF to = chat.state THEN @ ELSE Append(@, to),
                 !.rendered = Renderer(chat.ui, PartType(chat.tool), to)]

\* the agent starts a tool call: the part appears while the arguments stream
CallTool(tool, id, input) ==
    /\ chat.pc = "none"
    /\ chat' = [pc |-> "open", ui |-> ToolOwner[tool], tool |-> tool,
                toolCallId |-> id, input |-> input, chunks |-> 0,
                state |-> "input-streaming", trace |-> <<"input-streaming">>,
                rendered |-> Renderer(ToolOwner[tool], PartType(tool), "input-streaming"),
                executed |-> Undef, added |-> Undef, output |-> Undef,
                errorText |-> Undef, agentResult |-> Undef]
    /\ ChatFrame

\* another chunk of arguments, or of output, arrives
StreamMore ==
    /\ chat.pc = "open"
    /\ chat.state \in Transitions(chat.state)
    /\ chat.chunks < MaxChunks
    /\ chat' = [Moved(chat.state) EXCEPT !.chunks = @ + 1]
    /\ ChatFrame

\* the arguments are complete; a client-side tool's execute returns at once
InputComplete ==
    /\ chat.pc = "open"
    /\ "input-available" \in Transitions(chat.state)
    /\ chat' = [Moved("input-available") EXCEPT
                   !.executed = IF chat.tool \in ClientSideTools
                                THEN Placeholder(chat.tool, chat.input, now)
                                ELSE Undef]
    /\ ChatFrame

\* the user answers in the panel: onRespond calls addToolResult
UserResponds(response) ==
    /\ chat.pc = "open"
    /\ chat.tool \in ClientSideTools
    /\ chat.rendered = "Panel"
    /\ chat.added = Undef
    /\ response \in Responses(chat.tool)
    /\ chat' = [chat EXCEPT
                   !.added = [toolCallId |-> chat.toolCallId,
                              result |-> UserResult(chat.tool, response, now),
                              state |-> chat.state,
                              executed |-> chat.executed # Undef]]
    /\ ChatFrame

\* a tool that streams its output starts to do so
OutputStreaming ==
    /\ chat.pc = "open"
    /\ chat.tool \notin ClientSideTools
    /\ chat.state # "output-streaming"
    /\ "output-streaming" \in Transitions(chat.state)
    /\ chat' = [Moved("output-streaming") EXCEPT !.output = S("partial")]
    /\ ChatFrame

\* the tool's output is there: the user's for a client-side tool
OutputAvailable ==
    /\ chat.pc = "open"
    /\ "output-available" \in Transitions(chat.state)
    /\ chat.tool \in ClientSideTools => chat.executed # Undef /\ chat.added # Undef
    /\ chat' = [Moved("output-available") EXCEPT
                   !.output = IF chat.tool \in ClientSideTools
                              THEN chat.added.result ELSE S("output")]
    /\ ChatFrame

\* the call failed
OutputError ==
    /\ chat.pc = "open"
    /\ "output-error" \in Transitions(chat.state)
    /\ chat' = [Moved("output-error") EXCEPT !.errorText = S("failed")]
    /\ ChatFrame

\* the agent receives the tool's result and goes on
AgentContinues ==
    /\ chat.pc = "open"
    /\ chat.state = "output-available"
    /\ chat' = [chat EXCEPT !.pc = "continued", !.agentResult = chat.output]
    /\ ChatFrame

NextChat ==
    \/ Tick
    \/ \E tool \in ToolIds, id \in {"call-1", "call-2"} :
          \E input \in ValidatedInputs(tool) : CallTool(tool, id, input)
    \/ StreamMore
    \/ InputComplete
    \/ \E response \in UNION {Responses(tool) : tool \in ClientSideTools} :
          UserResponds(response)
    \/ OutputStreaming
    \/ OutputAvailable
    \/ OutputError
    \/ AgentContinues

SpecChat == Init /\ [][NextChat]_vars

-----------------------------------------------------------------------------
(* Guardrails: an agent call that passes its input processors first         *)

blockedWords == <<"badword1", "badword2">>

TextPart(text) == O([type |-> S("text"), text |-> S(text)])

\* JSON.stringify of a content that is an array of text parts
RECURSIVE StringifyParts(_)
StringifyParts(parts) ==
    IF parts = <<>> THEN ""
    ELSE "{\"type\":\"text\",\"text\":\"" \o Get(Head(parts), "text").v \o "\"}"
         \o (IF Len(parts) > 1 THEN "," ELSE "")
         \o StringifyParts(Tail(parts))

JsonStringify(content) == "[" \o StringifyParts(content.v) \o "]"

\* messages.findLast(m => m.role === 'user')
FindLastUser(messages) ==
    LET users == {i \in DOMAIN messages : messages[i].role = "user"}
    IN IF users = {} THEN Undef
       ELSE messages[CHOOSE i \in users : \A j \in users : j <= i]

\* ProfanityFilter.processInput({ messages, abort })
processInput(messages) ==
    LET lastUserMessage == FindLastUser(messages)
        content == IF lastUserMessage.content.t = "string"
                   THEN lastUserMessage.content.v
                   ELSE JsonStringify(lastUserMessage.content)
        containsProfanity ==
            \E w \in DOMAIN blockedWords :
                Includes(ToLowerCase(content), ToLowerCase(blockedWords[w]))
    IN IF lastUserMessage # Undef /\ containsProfanity
       THEN [aborted |-> TRUE, reason |-> "Message contains prohibited content",
             messages |-> messages]
       ELSE [aborted |-> FALSE, reason |-> "", messages |-> messages]

\* the contents a message of the conversation can have
Contents ==
    {S("hello"), S("what a BadWord1 day"), S("badword2"),
     A(<<TextPart("hi"), TextPart("BADWORD2!")>>), A(<<TextPart("hi")>>)}

Message(role, content) == [role |-> role, content |-> content]

\* conversations of one or two messages
Conversations ==
    {<<m>> : m \in [role : {"user", "assistant"}, content : Contents]}
    \cup {<<Message("user", c), Message(r, d)>> :
             c \in Contents, r \in {"user", "assistant"}, d \in {S("hello"), S("badword2")}}

\* the inputProcessors an agent is given: the custom filter alone, or next to
\* a built-in processor whose verdict comes from a classifier model
InputProcessors ==
    {<<"profanity-filter">>,
     <<"moderation", "profanity-filter">>,
     <<"profanity-filter", "moderation">>}

\* a built-in ModerationProcessor with strategy 'block': it aborts or not
Verdicts(processor, messages) ==
    IF processor = "profanity-filter"
    THEN {processInput(messages)}
    ELSE {[aborted |-> TRUE, reason |-> "Content flagged", messages |-> messages],
          [aborted |-> FALSE, reason |-> "", messages |-> messages]}

\* the maxLength of a ResponseLengthGuard built without an argument
DefaultMaxLength == 1000

\* the maxLength of a guard built with a small limit
ShortMaxLength == 5

Tenfold(s) == s \o s \o s \o s \o s \o s \o s \o s \o s \o s

\* what the LLM can answer: short texts, a content in parts, and a text one
\* character longer than the default limit
LongResponse == Tenfold(Tenfold("0123456789")) \o "!"

LLMContents ==
    {S("Hello!"), S("Sure."), A(<<TextPart("hi")>>), S(LongResponse)}

\* the outputProcessors an agent is given: none, or a ResponseLengthGuard
OutputProcessors ==
    {<<>>,
     <<[id |-> "response-length-guard", maxLength |-> ShortMaxLength]>>,
     <<[id |-> "response-length-guard", maxLength |-> DefaultMaxLength]>>}

\* the text of a message content: the string, or its JSON
ContentText(content) ==
    IF content.t = "string" THEN content.v ELSE JsonStringify(content)

\* ResponseLengthGuard.processOutputResult({ messages, abort })
processOutputResult(messages, maxLength) ==
    [i \in DOMAIN messages |->
        LET msg == messages[i]
            content == ContentText(msg.content)
        IN IF msg.role = "assistant" /\ Len(content) > maxLength
           THEN [msg EXCEPT !.content = S(SubSeq(content, 1, maxLength) \o "...")]
           ELSE msg]

RequestFrame ==
    UNCHANGED <<manifests, loaded, started, agents, now, call, events, prev, vcase,
                registry, run, chat, lifecycle, demo>>

\* agent.generate(messages)
Generate(messages, inputProcessors, outputProcessors) ==
    /\ request.pc = "none"
    /\ request' = [pc |-> "input", messages |-> messages,
                   inputProcessors |-> inputProcessors,
                   outputProcessors |-> outputProcessors, ran |-> <<>>,
                   tripwire |-> Undef, llmCalls |-> 0, result |-> Undef]
    /\ RequestFrame

\* an agent that hands the messages to the LLM whatever the processors said
RunInputProcessorUnheeded(verdict) ==
    /\ request.pc = "input"
    /\ LET i == Len(request.ran) + 1
           processor == request.inputProcessors[i]
       IN /\ verdict \in Verdicts(processor, request.messages)
          /\ request' =
                [request EXCEPT
                    !.ran = Append(@, [processor |-> processor,
                                       aborted |-> verdict.aborted]),
                    !.messages = verdict.messages,
                    !.tripwire = IF verdict.aborted /\ request.tripwire = Undef
                                 THEN [reason |-> verdict.reason] ELSE @,
                    !.pc = IF i = Len(request.inputProcessors) THEN "llm" ELSE "input"]
    /\ RequestFrame

\* the next input processor runs; abort() ends the request with a tripwire
RunInputProcessor(verdict) ==
    /\ request.pc = "input"
    /\ LET i == Len(request.ran) + 1
           processor == request.inputProcessors[i]
       IN /\ verdict \in Verdicts(processor, request.messages)
          /\ request' =
                [request EXCEPT
                    !.ran = Append(@, [processor |-> processor,
                                       aborted |-> verdict.aborted]),
                    !.messages = verdict.messages,
                    !.tripwire = IF verdict.aborted
                                 THEN [reason |-> verdict.reason] ELSE @,
                    !.pc = IF verdict.aborted THEN "aborted"
                           ELSE IF i = Len(request.inputProcessors) THEN "llm"
                           ELSE "input"]
    /\ RequestFrame

\* the messages that passed every input processor go to the LLM
InvokeLLM(content) ==
    /\ request.pc = "llm"
    /\ request' = [request EXCEPT !.pc = "output", !.llmCalls = @ + 1,
                                  !.messages = Append(@, Message("assistant", content))]
    /\ RequestFrame

\* the output processors run over the messages; the agent returns the response
RunOutputProcessors ==
    /\ request.pc = "output"
    /\ LET messages ==
              IF request.outputProcessors = <<>> THEN request.messages
              ELSE processOutputResult(request.messages,
                                       request.outputProcessors[1].maxLength)
       IN request' = [request EXCEPT
                         !.pc = "done",
                         !.messages = messages,
                         !.result = [text |-> ContentText(messages[Len(messages)].content)]]
    /\ RequestFrame

\* the agent returns { tripwire: { reason } } instead of a response
ReturnTripwire ==
    /\ request.pc = "aborted"
    /\ request' = [request EXCEPT !.pc = "done",
                                  !.result = [tripwire |-> request.tripwire]]
    /\ RequestFrame

AllVerdicts ==
    UNION {Verdicts(p, m) : p \in {"profanity-filter", "moderation"}, m \in Conversations}

NextRequest ==
    \/ \E messages \in Conversations, inputProcessors \in InputProcessors,
             outputProcessors \in OutputProcessors :
          Generate(messages, inputProcessors, outputProcessors)
    \/ \E verdict \in AllVerdicts : RunInputProcessor(verdict)
    \/ \E content \in LLMContents : InvokeLLM(content)
    \/ RunOutputProcessors
    \/ ReturnTripwire

SpecRequest == Init /\ [][NextRequest]_vars

-----------------------------------------------------------------------------
(* BasePlugin: the lifecycle of a chat plugin *)

\* the lifecycle hooks a plugin can define
HookNames == {"onConfigure", "onReady", "onError", "onDisable", "onDestroy"}

\* the hooks objects of the model: none, every hook, every hook but onError
HookSets == {{}, HookNames, HookNames \ {"onError"}}

\* initialize() has not been called
NoInitialize ==
    [config |-> "none", failed |-> "none", error |-> "none", onError |-> "none",
     outcome |-> "none", thrown |-> "none", state |-> "none"]

LifecycleFrame ==
    UNCHANGED <<manifests, loaded, started, agents, now, call, events, prev, vcase,
                registry, run, chat, request, demo>>

\* new Plugin(): _state is 'registered'
Construct(hooks, validates) ==
    /\ lifecycle.pc = "none"
    /\ lifecycle' = [pc |-> "idle", state |-> "registered", op |-> "construct",
                     hooks |-> hooks, validates |-> validates,
                     init |-> NoInitialize]
    /\ LifecycleFrame

\* the catch block of initialize(): setState('error'), then await onError
Catch(failed, error) ==
    [lifecycle EXCEPT !.pc = "onError", !.state = "error", !.op = "initialize",
                      !.init.failed = failed, !.init.error = error]

\* initialize(config, storage) is entered: setState('initializing')
Initialize(config) ==
    /\ lifecycle.pc = "idle"
    /\ lifecycle' = [lifecycle EXCEPT !.pc = "validate", !.state = "initializing",
                                      !.op = "initialize",
                                      !.init = [NoInitialize EXCEPT !.config = config]]
    /\ LifecycleFrame

\* the configuration is validated, in the same turn as the entry
Validate ==
    /\ lifecycle.pc = "validate"
    /\ lifecycle' = IF lifecycle.validates /\ lifecycle.init.config = "invalid"
                    THEN Catch("validate", "Invalid plugin config")
                    ELSE [lifecycle EXCEPT !.pc = "onConfigure"]
    /\ LifecycleFrame

\* await this.hooks?.onConfigure?.(this.config)
OnConfigure(ok) ==
    /\ lifecycle.pc = "onConfigure"
    /\ ok \/ "onConfigure" \in lifecycle.hooks
    /\ lifecycle' = IF ok THEN [lifecycle EXCEPT !.pc = "onInitialize"]
                    ELSE Catch("onConfigure", "onConfigure failed")
    /\ LifecycleFrame

\* await this.onInitialize(); this.setState('active')
OnInitialize(ok) ==
    /\ lifecycle.pc = "onInitialize"
    /\ lifecycle' = IF ok THEN [lifecycle EXCEPT !.pc = "onReady", !.state = "active",
                                                 !.op = "initialize"]
                    ELSE Catch("onInitialize", "onInitialize failed")
    /\ LifecycleFrame

\* await this.hooks?.onReady?.(), and the return of initialize()
OnReady(ok) ==
    /\ lifecycle.pc = "onReady"
    /\ ok \/ "onReady" \in lifecycle.hooks
    /\ lifecycle' = IF ok THEN [lifecycle EXCEPT !.pc = "idle",
                                                 !.init.outcome = "resolved",
                                                 !.init.state = lifecycle.state]
                    ELSE Catch("onReady", "onReady failed")
    /\ LifecycleFrame

\* await this.hooks?.onError?.(error); throw error
OnError(ok) ==
    /\ lifecycle.pc = "onError"
    /\ ok \/ "onError" \in lifecycle.hooks
    /\ lifecycle' = [lifecycle EXCEPT
                        !.pc = "idle",
                        !.init.onError = IF "onError" \in lifecycle.hooks
                                         THEN lifecycle.init.error ELSE "none",
                        !.init.outcome = "rejected",
                        !.init.thrown = IF ok THEN lifecycle.init.error
                                        ELSE "onError failed",
                        !.init.state = lifecycle.state]
    /\ LifecycleFrame

\* disable(): await onDisable, then setState('disabled')
Disable(ok) ==
    /\ lifecycle.pc \notin {"none", "validate"}
    /\ ok \/ "onDisable" \in lifecycle.hooks
    /\ lifecycle' = IF ok THEN [lifecycle EXCEPT !.state = "disabled", !.op = "disable"]
                    ELSE lifecycle
    /\ LifecycleFrame

\* destroy(): await onDestroy, then setState('destroyed')
Destroy(ok) ==
    /\ lifecycle.pc \notin {"none", "validate"}
    /\ ok \/ "onDestroy" \in lifecycle.hooks
    /\ lifecycle' = IF ok THEN [lifecycle EXCEPT !.state = "destroyed", !.op = "destroy"]
                    ELSE lifecycle
    /\ LifecycleFrame

NextLifecycle ==
    \/ \E hooks \in HookSets, validates \in BOOLEAN : Construct(hooks, validates)
    \/ \E config \in {"valid", "invalid"} : Initialize(config)
    \/ Validate
    \/ \E ok \in BOOLEAN : OnConfigure(ok)
    \/ \E ok \in BOOLEAN : OnInitialize(ok)
    \/ \E ok \in BOOLEAN : OnReady(ok)
    \/ \E ok \in BOOLEAN : OnError(ok)
    \/ \E ok \in BOOLEAN : Disable(ok)
    \/ \E ok \in BOOLEAN : Destroy(ok)

SpecLifecycle == Init /\ [][NextLifecycle]_vars

-----------------------------------------------------------------------------
(* AskUserForStuffDemo: the order form and the approval dialog *)

\* how many orders are submitted
MaxSubmits == 3

\* the answers of the server to a run request and to a resume request, and
\* "error" for a fetch or a response.json() that throws
RunOutcomes == {"suspended", "completed", "failed", "error"}
ResumeOutcomes == {"output", "no output", "error"}

DemoFrame ==
    UNCHANGED <<manifests, loaded, started, agents, now, call, events, prev, vcase,
                registry, run, chat, request, lifecycle>>

\* the component is mounted: the initial values of its useState calls
Mount ==
    /\ demo.pc = "none"
    /\ demo' = [pc |-> "mounted", isProcessing |-> FALSE, suspendedPayload |-> 0,
                workflowRun |-> 0, result |-> 0, pending |-> <<>>,
                submits |-> 0, resumes |-> <<>>, last |-> "none"]
    /\ DemoFrame

\* the elements the component renders
FormEnabled == demo.pc = "mounted" /\ ~demo.isProcessing
DialogShown == demo.pc = "mounted" /\ demo.suspendedPayload # 0

\* the order form is submitted: handleSubmit up to its fetch. The run the
\* server starts for the n-th order has runId n.
handleSubmit(orderType) ==
    /\ FormEnabled
    /\ demo.submits < MaxSubmits
    /\ demo' = [demo EXCEPT
                   !.isProcessing = TRUE, !.suspendedPayload = 0, !.result = 0,
                   !.submits = @ + 1,
                   !.pending = Append(@, [kind |-> "run", runId |-> demo.submits + 1,
                                          orderType |-> orderType])]
    /\ DemoFrame

\* every pending request but the i-th
Others(pending, i) ==
    SubSeq(pending, 1, i - 1) \o SubSeq(pending, i + 1, Len(pending))

\* a run request without the finally block
RunSettlesUnfinished(i, outcome) ==
    /\ demo.pc = "mounted"
    /\ i \in DOMAIN demo.pending
    /\ demo.pending[i].kind = "run"
    /\ LET runId == demo.pending[i].runId
           answered == [demo EXCEPT !.pending = Others(@, i), !.last = outcome]
       IN demo' =
            CASE outcome = "suspended" ->
                   [answered EXCEPT !.suspendedPayload = runId, !.workflowRun = runId,
                                    !.isProcessing = FALSE]
              [] outcome = "completed" ->
                   [answered EXCEPT !.result = runId, !.isProcessing = FALSE]
              [] outcome = "failed" -> [answered EXCEPT !.isProcessing = FALSE]
              [] OTHER -> answered
    /\ DemoFrame

\* the run request settles: the rest of handleSubmit
RunSettles(i, outcome) ==
    /\ demo.pc = "mounted"
    /\ i \in DOMAIN demo.pending
    /\ demo.pending[i].kind = "run"
    /\ LET runId == demo.pending[i].runId
           answered == [demo EXCEPT !.pending = Others(@, i), !.last = outcome,
                                    !.isProcessing = FALSE]
       IN demo' =
            CASE outcome = "suspended" ->
                   [answered EXCEPT !.suspendedPayload = runId, !.workflowRun = runId]
              [] outcome = "completed" -> [answered EXCEPT !.result = runId]
              [] OTHER -> answered
    /\ DemoFrame

\* handleApprove and handleReject up to the fetch of workflowRun.resume
Resuming(approved) ==
    IF demo.workflowRun = 0 THEN demo
    ELSE [demo EXCEPT
             !.isProcessing = TRUE, !.suspendedPayload = 0,
             !.pending = Append(@, [kind |-> "resume", runId |-> demo.workflowRun,
                                    approved |-> approved]),
             !.resumes = Append(@, [runId |-> demo.workflowRun,
                                    approved |-> approved])]

\* a handleApprove that leaves the approval dialog on the page
handleApproveKeepingDialog ==
    /\ DialogShown
    /\ Len(demo.resumes) < MaxSubmits + 1
    /\ demo' = [Resuming(TRUE) EXCEPT !.suspendedPayload = demo.suspendedPayload]
    /\ DemoFrame

\* the Approve button of the dialog is clicked
handleApprove ==
    /\ DialogShown
    /\ demo' = Resuming(TRUE)
    /\ DemoFrame

\* the Reject button of the dialog is clicked
handleReject ==
    /\ DialogShown
    /\ demo' = Resuming(FALSE)
    /\ DemoFrame

\* the resume request settles: the rest of handleApprove or handleReject
ResumeSettles(i, outcome) ==
    /\ demo.pc = "mounted"
    /\ i \in DOMAIN demo.pending
    /\ demo.pending[i].kind = "resume"
    /\ demo' = [demo EXCEPT
                   !.pending = Others(@, i), !.last = outcome,
                   !.result = IF outcome = "output" THEN demo.pending[i].runId ELSE @,
                   !.isProcessing = FALSE]
    /\ DemoFrame

\* a request the component has sent settles
Settles ==
    \E i \in 1..(2 * MaxSubmits) :
        \/ \E outcome \in RunOutcomes : RunSettles(i, outcome)
        \/ \E outcome \in ResumeOutcomes : ResumeSettles(i, outcome)

NextDemo ==
    \/ Mount
    \/ \E orderType \in {"standard", "express", "priority"} : handleSubmit(orderType)
    \/ handleApprove
    \/ handleReject
    \/ Settles

SpecDemo == Init /\ [][NextDemo]_vars

\* every fetch settles: the server answers or the request fails
SpecDemoFair == SpecDemo /\ WF_vars(Settles)

-----------------------------------------------------------------------------
(* Properties *)

ExpertMissing == ~(call.ctx.mastra /\ "expert-agent" \in agents)

\* C3: a deepResearch invocation that cannot get the agent 'expert-agent'
\* from the host never passes the lookup and never returns an output; when
\* it ends, it ends with the error that names the missing agent.
C3_MissingExpertFails ==
    (call.pc # "idle" /\ call.tool = "deepResearch" /\ ExpertMissing) =>
        /\ call.pc \in {"executing", "getAgent", "failed"}
        /\ call.pc = "failed" =>
              call.error = "Expert agent not available. Make sure it is registered with Mastra."

\* deepResearch has failed on a host that did not register the expert agent
C3_Witness ==
    /\ call.pc = "failed"
    /\ call.tool = "deepResearch"
    /\ call.ctx.mastra
    /\ "expert-agent" \notin agents
    /\ "research-bot" \in agents

C5_LockStep ==
    \A p \in loaded :
        LET parts == {PartType(tool) : tool \in ToolsOf(p)}
        IN /\ UiPartTypes[p] = parts
           /\ p \in DOMAIN manifests =>
                /\ Range(Listed(manifests[p], "toolIds")) = ToolsOf(p)
                /\ "uiComponents" \in DOMAIN manifests[p] =>
                      DOMAIN manifests[p].uiComponents = parts

\* the plugins with tools and a UI have been loaded
C5_Witness ==
    {"trip-planner", "ask-user-for-stuff", "research-bot", "weather-plugin"}
        \subseteq loaded

\* C6: the identifiers one manifest declares (tool ids, agent ids, processor
\* ids, UI part types) are pairwise distinct.
C6_DistinctIdentifiers ==
    \A p \in DOMAIN manifests :
        Cardinality(Range(Identifiers(manifests[p]))) = Len(Identifiers(manifests[p]))

\* the trip planner manifest, with its seven identifiers, has been loaded
C6_Witness ==
    /\ "trip-planner" \in DOMAIN manifests
    /\ Len(Identifiers(manifests["trip-planner"])) = 7
    /\ "content-moderation" \in DOMAIN manifests
    /\ Len(Identifiers(manifests["content-moderation"])) = 6

\* C7: no step of the host or of a tool changes a manifest that exists: every
\* manifest keeps its id, name, version, features and identifier lists.
C7_ManifestFrozen ==
    [][\A p \in DOMAIN manifests :
          p \in DOMAIN manifests' /\ manifests'[p] = manifests[p]]_vars

\* a tool of a plugin with a manifest has run on a started host
C7_Witness ==
    /\ "trip-planner" \in DOMAIN manifests
    /\ started
    /\ call.pc = "returned"
    /\ call.tool = "getWeather"

\* a value without its timestamp field
Untimed(value) ==
    IF value.t = "object" /\ "timestamp" \in DOMAIN value.v
    THEN Without(value, "timestamp") ELSE value

\* what was written, without the timestamps
UntimedEvents(written) ==
    [i \in 1..Len(written) |->
        [f \in DOMAIN written[i] \ {"timestamp"} |-> written[i][f]]]

\* the same call has been made and has settled twice, with the same answers
\* from the services it consults
Repeated == prev.kind = "done" /\ Settled /\ call.ext = prev.call.ext

DeclaredDefaults ==
    [name \in InputSchemaNames |->
        CASE name = "confirmationInputSchema" ->
                [confirmLabel |-> S("Confirm"), cancelLabel |-> S("Cancel"),
                 variant |-> S("default")]
          [] name = "multipleChoiceInputSchema" -> [allowMultiple |-> B(FALSE)]
          [] name = "textInputSchema" -> [multiline |-> B(FALSE), required |-> B(TRUE)]
          [] name = "placesInputSchema" -> [limit |-> Num(5)]
          [] name = "researchInputSchema" -> [depth |-> S("standard")]
          [] name = "nestedResearchInputSchema" -> [depth |-> S("detailed")]
          [] OTHER -> <<>>]

\* C9: an input with the required fields validates; the validated object has
\* every field the candidate supplied and the declared default for every
\* field it omitted. The confirmation input {title, message, variant:
\* "danger"} yields confirmLabel "Confirm" and cancelLabel "Cancel".
C9_DefaultsApplied ==
    (vcase.kind = "valid" /\ vcase.schema \in InputSchemaNames) =>
        /\ vcase.res.ok
        /\ \A f \in DOMAIN DeclaredDefaults[vcase.schema] :
              Get(vcase.res.data, f) =
                  IF f \in DOMAIN vcase.cand.v THEN vcase.cand.v[f]
                  ELSE DeclaredDefaults[vcase.schema][f]
        /\ vcase.schema = "geojsonInputSchema" =>
              Get(Idx(Get(vcase.res.data, "points"), 0), "type") = S("other")
        /\ vcase.cand = ConfirmationScenario =>
              /\ Get(vcase.res.data, "confirmLabel") = S("Confirm")
              /\ Get(vcase.res.data, "cancelLabel") = S("Cancel")
              /\ Get(vcase.res.data, "variant") = S("danger")
              /\ Get(vcase.res.data, "title") = S("Delete?")

\* the confirmation scenario has been validated
C9_Witness ==
    /\ vcase.kind = "valid"
    /\ vcase.schema = "confirmationInputSchema"
    /\ vcase.cand = ConfirmationScenario
    /\ vcase.res.ok

\* C10: a candidate that omits a required field of a schema, or gives it a
\* value of another primitive type, fails validation with an issue whose path
\* is that field; a weather output without forecast fails with an issue on
\* forecast.
C10_FieldNamed ==
    vcase.kind = "malformed" =>
        /\ ~vcase.res.ok
        /\ \E issue \in vcase.res.issues : issue.path = vcase.path

\* a weather output without forecast has been validated
C10_Witness ==
    /\ vcase.kind = "malformed"
    /\ vcase.schema = "weatherOutputSchema"
    /\ vcase.path = <<"forecast">>
    /\ vcase.how = "omitted"
    /\ "forecast" \notin DOMAIN vcase.cand.v
    /\ ~vcase.res.ok

NonEmpty(field) == field # Undef /\ Len(field.list) > 0

\* C12: a capability-presence type guard (hasTools, hasAgents) returns true
\* exactly when the optional field of the plugin object is present and
\* non-empty, and leaves the plugin object as it was.
C12_GuardIffNonEmpty ==
    registry.last.op = "guard" =>
        /\ registry.last.hasTools <=> NonEmpty(registry.last.plugin.tools)
        /\ registry.last.hasAgents <=> NonEmpty(registry.last.plugin.agents)
        /\ registry.last.after = registry.last.plugin

\* the entries of the registry whose key is name
EntriesFor(name) == {i \in 1..Len(registry.plugins) : registry.plugins[i].key = name}

\* C13: a register() for a name the registry already holds throws, leaves
\* the plugins map as it was and calls no register hook; the map never holds
\* two plugins under one name.
C13_DuplicateRejected ==
    [][/\ \A i, j \in 1..Len(registry'.plugins) :
            registry'.plugins[i].key = registry'.plugins[j].key => i = j
       /\ (registry'.last.op = "register"
           /\ MapHas(registry.plugins, registry'.last.plugin.name)
           /\ registry' # registry) =>
              /\ registry'.last.threw
              /\ registry'.plugins = registry.plugins
              /\ registry'.hooks = registry.hooks]_vars

\* a second plugin object named "search" was refused; the first is still there
C13_Witness ==
    /\ registry.last.op = "register"
    /\ registry.last.threw
    /\ registry.last.plugin.obj = 2
    /\ \E i \in EntriesFor("search") : registry.plugins[i].value.obj = 1
    /\ registry.hooks = <<1>>

\* the run is for a priority order above the approval threshold
HighValuePriority ==
    /\ run.status # "none"
    /\ run.order.orderType = "priority"
    /\ run.order.amount > ApprovalThreshold

\* resume data with approved = true has been supplied for the run
Approved ==
    \E i \in DOMAIN run.resumed : Get(run.resumed[i], "approved") = B(TRUE)

\* a step result that says the order went through
ProcessedSuccessfully(result) ==
    LET trackingNumber == Get(Get(result, "data"), "trackingNumber")
    IN \/ Get(result, "success") = B(TRUE)
       \/ /\ trackingNumber # Undef
          /\ Len(trackingNumber.v) >= 3
          /\ SubSeq(trackingNumber.v, 1, 3) = "PRI"

\* C14: a priority order with amount > 1000 has no successful step result and
\* no PRI tracking number unless resume data with approved = true was supplied
\* for the run; as long as no approval decision was supplied, the run that
\* reached the priority step is suspended with the order's id, amount and
\* customer email in the suspend payload.
C14_ApprovalGate ==
    HighValuePriority =>
        /\ \A i \in DOMAIN run.results :
              ProcessedSuccessfully(run.results[i].result) => Approved
        /\ (run.output # Undef /\ Get(run.output, "status") = S("processed")) => Approved
        /\ ("priority-processing" \in Range(run.ran) /\ run.resumed = <<>>) =>
              /\ run.status = "suspended"
              /\ run.results = <<>>
              /\ run.suspendPayload.orderDetails =
                    [orderId |-> run.order.orderId,
                     amount |-> run.order.amount,
                     customerEmail |-> run.order.customerEmail]

\* a priority order above the threshold was suspended, approved and then
\* processed with a PRI tracking number
C14_Witness ==
    /\ HighValuePriority
    /\ Approved
    /\ run.ran = <<"priority-processing", "priority-processing">>
    /\ \E i \in DOMAIN run.results : ProcessedSuccessfully(run.results[i].result)
    /\ run.status = "success"

\* C17: for a client-side tool call the steps come in the documented order:
\* the agent calls the tool, execute returns the placeholder, the UI shows the
\* interactive component for the part in state input-available, the user
\* answers, the UI calls addToolResult with the call's toolCallId, and only
\* then the agent receives the result and continues, never with the
\* placeholder as the result.
C17_ClientSideOrder ==
    (chat.pc # "none" /\ chat.tool \in ClientSideTools) =>
        /\ chat.executed # Undef => "input-available" \in Range(chat.trace)
        /\ chat.added # Undef =>
              /\ chat.added.toolCallId = chat.toolCallId
              /\ chat.added.state = "input-available"
              /\ chat.added.executed
        /\ chat.pc = "continued" =>
              /\ chat.added # Undef
              /\ chat.agentResult = chat.added.result
              /\ chat.agentResult # chat.executed

\* the place of a state along the life of a tool call part
Rank(state) ==
    CASE state = "input-streaming" -> 1
      [] state = "input-available" -> 2
      [] state = "output-streaming" -> 3
      [] OTHER -> 4

\* C18: the state of a tool call part only moves forward along
\* input-streaming, input-available, (output-streaming,) output-available or
\* output-error: no state is entered again after it was left, the part stays
\* in output-available or output-error once there, and no output state comes
\* before input-available.
C18_ForwardOnly ==
    chat.pc # "none" =>
        /\ chat.trace[Len(chat.trace)] = chat.state
        /\ \A i, j \in DOMAIN chat.trace :
              i < j => Rank(chat.trace[i]) < Rank(chat.trace[j])
        /\ \A j \in DOMAIN chat.trace :
              chat.trace[j] \in {"output-streaming", "output-available", "output-error"} =>
                 \E i \in 1..j - 1 : chat.trace[i] = "input-available"

\* a part went through all of input-streaming, input-available,
\* output-streaming and output-available, with a prolonged streaming state
C18_Witness ==
    /\ chat.pc # "none"
    /\ chat.chunks > 0
    /\ chat.trace = <<"input-streaming", "input-available", "output-streaming",
                      "output-available">>

\* C19: for each tool part type an example UI renders, a part in any of the
\* five tool states is rendered by a case of its own and never falls through
\* to rendering nothing.
C19_AllStatesRendered ==
    chat.pc # "none" =>
        /\ chat.state \in ToolStates
        /\ PartType(chat.tool) \in UiPartTypes[chat.ui]
        /\ chat.rendered # "null"

\* the most recent user message of the request contains a blocked word
LastUserMessageBlocked ==
    LET last == FindLastUser(request.messages)
        content == IF last.content.t = "string" THEN last.content.v
                   ELSE JsonStringify(last.content)
    IN /\ last # Undef
       /\ \E w \in DOMAIN blockedWords :
             Includes(ToLowerCase(content), blockedWords[w])

\* C20: once an input processor has called abort() for a request, which
\* ProfanityFilter does exactly when the most recent user message contains a
\* blocked word, the LLM is not invoked for that request and the agent
\* returns a tripwire result that carries the abort reason, not a response.
C20_AbortBlocksLLM ==
    request.pc # "none" =>
        /\ \A i \in DOMAIN request.ran :
              request.ran[i].processor = "profanity-filter" =>
                 (request.ran[i].aborted <=> LastUserMessageBlocked)
        /\ (\E i \in DOMAIN request.ran : request.ran[i].aborted) =>
              /\ request.llmCalls = 0
              /\ request.tripwire # Undef
              /\ request.pc = "done" =>
                    /\ DOMAIN request.result = {"tripwire"}
                    /\ request.result.tripwire.reason = request.tripwire.reason
        /\ (request.pc = "done" /\ "text" \in DOMAIN request.result) =>
              /\ request.llmCalls = 1
              /\ \A i \in DOMAIN request.ran : ~request.ran[i].aborted

\* ProfanityFilter, run after a built-in processor that let the messages
\* through, stopped a request whose last user message, in parts and in
\* capitals and followed by an assistant message, holds a blocked word; the
\* agent returned the tripwire
C20_Witness ==
    /\ request.pc = "done"
    /\ request.inputProcessors = <<"moderation", "profanity-filter">>
    /\ request.messages = <<Message("user", A(<<TextPart("hi"), TextPart("BADWORD2!")>>)),
                            Message("assistant", S("hello"))>>
    /\ request.llmCalls = 0
    /\ request.result = [tripwire |-> [reason |-> "Message contains prohibited content"]]

\* C23: the orderId of the workflow's final output is the orderId of the
\* input order, whatever the id (also one that contains '-') and whatever
\* the outcome (also a rejected order).
C23_OrderIdPreserved ==
    run.status = "success" =>
        Get(run.output, "orderId") = S(run.order.orderId)

\* the run was resumed with approved = false
Rejected ==
    /\ run.status # "none"
    /\ run.order.orderType = "priority"
    /\ run.resumed # <<>>
    /\ Get(run.resumed[Len(run.resumed)], "approved") = B(FALSE)

\* the result priorityProcessingStep returned, if it has returned
PriorityResults ==
    {run.results[i].result : i \in {j \in DOMAIN run.results :
                                       run.results[j].step = "priority-processing"}}

C25_InvalidNeverProcessed ==
    (run.status # "none" /\ ~run.input.isValid) =>
        /\ \A i \in DOMAIN run.results :
              Get(Get(run.results[i].result, "data"), "trackingNumber") = Undef
        /\ run.status = "success" => Get(run.output, "status") # S("processed")

\* C28: for every analysis text parseAnalysis returns at most 6 findings, at
\* most 4 related topics, all different, and a confidence within [0, 1], which
\* is 0.7 when the text states no confidence percentage; the deepResearch
\* output therefore meets the bounds of researchOutputSchema.
C28_ParseBounds ==
    (call.pc = "returned" /\ call.tool = "deepResearch") =>
        LET findings == Get(call.out, "keyFindings").v
            topics == Get(call.out, "relatedTopics").v
            confidence == Get(call.out, "confidence").v
            text == Get(call.out, "summary").v
        IN /\ Len(findings) <= 6
           /\ Len(topics) <= 4
           /\ \A i, j \in DOMAIN topics : topics[i] = topics[j] => i = j
           /\ confidence >= 0
           /\ confidence <= Scale
           /\ (~Includes(text, "%") \/ ~Includes(text, "onfiden")) =>
                 confidence * 10 = 7 * Scale
           /\ SafeParse(researchOutputSchema, call.out).ok

\* the text with seven marked findings, five different related topics and a
\* percentage that is not a confidence was cut to six and four, at 0.7
C28_Witness ==
    /\ call.pc = "returned"
    /\ call.tool = "deepResearch"
    /\ Includes(Get(call.out, "summary").v, "finding 7 of 7")
    /\ Len(Get(call.out, "keyFindings").v) = 6
    /\ Get(call.out, "relatedTopics") = A(<<S("art"), S("bio"), S("law"), S("math")>>)
    /\ Get(call.out, "confidence") = Frac((7 * Scale) \div 10)

\* the phases of the research-phase events emitted so far, in order
Phases ==
    LET phaseEvents == SelectSeq(events, LAMBDA e : e.type = "research-phase")
    IN [i \in DOMAIN phaseEvents |-> phaseEvents[i].phase]

\* C22: in every successful deepResearch invocation with a writer the
\* research-phase events are emitted exactly once each in the order starting,
\* analyzing, complete, and 'complete' is emitted only after the expert
\* agent's stream was piped to the writer and its final text resolved.
C22_PhaseOrder ==
    (call.pc # "idle" /\ call.tool = "deepResearch" /\ call.ctx.writer) =>
        /\ Phases = SubSeq(<<"starting", "analyzing", "complete">>, 1, Len(Phases))
        /\ call.pc = "returned" => Len(Phases) = 3
        /\ \A i \in DOMAIN events :
              (events[i].type = "research-phase" /\ events[i].phase = "complete") =>
                 /\ call.ext # "none"
                 /\ \E j \in 1..i - 1 :
                       /\ events[j].type = "agent-stream"
                       /\ events[j].text = call.ext

\* a deepResearch call with a writer returned after the three phases, the
\* expert's text between 'analyzing' and 'complete'
C22_Witness ==
    /\ call.pc = "returned"
    /\ call.tool = "deepResearch"
    /\ call.ctx.writer
    /\ call.ext # ""
    /\ Len(events) = 4
    /\ events[3] = [type |-> "agent-stream", text |-> call.ext]
    /\ Phases = <<"starting", "analyzing", "complete">>

\* C29: after ResponseLengthGuard.processOutputResult no assistant message
\* has a content longer than maxLength characters, 1000 by default.
C29_LengthBounded ==
    (request.pc = "done" /\ request.llmCalls > 0 /\ request.outputProcessors # <<>>) =>
        \A i \in DOMAIN request.messages :
            request.messages[i].role = "assistant" =>
               Len(ContentText(request.messages[i].content))
                  <= request.outputProcessors[1].maxLength

\* the edges of the documented plugin lifecycle, with the operation of each
DocumentedEdges ==
    {<<"registered", "initializing", "initialize">>,
     <<"initializing", "active", "initialize">>,
     <<"initializing", "error", "initialize">>,
     <<"active", "disabled", "disable">>,
     <<"disabled", "destroyed", "destroy">>}

\* C21: every change of a plugin's state follows an edge of the documented
\* lifecycle: initialize() takes effect only from 'registered', disable() only
\* from 'active', destroy() only from 'disabled', and nothing changes the
\* state once it is 'destroyed'.
C21_DocumentedLifecycle ==
    [][(lifecycle.state # "none" /\ lifecycle'.state # lifecycle.state) =>
          <<lifecycle.state, lifecycle'.state, lifecycle'.op>> \in DocumentedEdges]_vars

\* C27: when initialize() returns, the state is 'active' exactly if the
\* validation, onConfigure, onInitialize and onReady all succeeded; after a
\* failure the state is 'error', onError was called with the error and the
\* same error is thrown to the caller.
C27_InitializeOutcome ==
    lifecycle.pc # "none" /\ lifecycle.init.outcome # "none" =>
        /\ lifecycle.init.state = "active" <=> lifecycle.init.failed = "none"
        /\ lifecycle.init.failed # "none" =>
              /\ lifecycle.init.state = "error"
              /\ "onError" \in lifecycle.hooks =>
                    lifecycle.init.onError = lifecycle.init.error
              /\ lifecycle.init.outcome = "rejected"
              /\ lifecycle.init.thrown = lifecycle.init.error

C30_ProcessingEnds ==
    (demo.pc = "mounted" /\ demo.isProcessing) ~>
        (demo.pc = "mounted" /\ ~demo.isProcessing)

\* a request has failed and the order form is enabled again
C30_Witness ==
    /\ demo.pc = "mounted"
    /\ demo.last = "error"
    /\ demo.pending = <<>>
    /\ ~demo.isProcessing
    /\ demo.submits = 2

====
